---- MODULE Spec2Model ----
(***************************************************************************)
(* Model of the academic-writing evaluator's deterministic core:           *)
(*   - computeWordDiff     (server/routes.ts, lines 92-137)                *)
(*   - analyzeReadability  (server/readability.ts, lines 1-182)            *)
(* Strings are sequences of one-character strings, so that tokenisation,   *)
(* the regular-expression passes and the placeholder substitution are      *)
(* modelled character by character.                                        *)
(* Numbers the code holds as doubles are held as exact integers:           *)
(*   fleschScore and avgSentenceLength in tenths, avgWordLength in         *)
(*   hundredths (the scale the code rounds each of them to).               *)
(***************************************************************************)
EXTENDS Integers, Sequences, FiniteSets, TLC

VARIABLES
  original,        \* computeWordDiff: parameter original
  suggested,       \* computeWordDiff: parameter suggested
  originalWords,   \* computeWordDiff: original.split(/(\s+)/)
  suggestedWords,  \* computeWordDiff: suggested.split(/(\s+)/)
  dp,              \* computeWordDiff: the LCS table, dp[i+1][j+1] is the code's dp[i][j]
  i,               \* computeWordDiff: backtracking row
  j,               \* computeWordDiff: backtracking column
  ops,             \* computeWordDiff: token-level edit script
  segments,        \* computeWordDiff: the returned segments
  pcDiff,          \* position of the computeWordDiff invocation
  text,            \* analyzeReadability: parameter text
  report,          \* analyzeReadability: the returned ReadabilityMetrics
  pcRead,          \* position of the analyzeReadability invocation
  lastCall,        \* request log: the most recent call of a core function
  keptCall,        \* request log: an earlier call, kept for comparison
  sinceKept,       \* request log: the number of calls made between keptCall and lastCall
  frames,          \* concurrent requests: the locals of each invocation in progress
  inflight,        \* concurrent requests: position, call and result of each request
  sectionType,     \* evaluateText / evaluateFigure: parameter sectionType
  attempt,         \* evaluateText / evaluateFigure: the loop counter
  content,         \* evaluateText / evaluateFigure: content of the AI response
  lastError,       \* evaluateText / evaluateFigure: the last recorded error
  aiCalls,         \* history: the outcome of each call of the AI service
  delays,          \* history: the delay (ms) waited after each failed attempt, 0 for none
  criteriaScores,  \* evaluateText / evaluateFigure: the scored criteria
  overallScore,    \* evaluateText / evaluateFigure: the returned overallScore, in tenths
  outcome,         \* evaluateText / evaluateFigure: returned or thrown
  pcEval,          \* position of the evaluateText / evaluateFigure invocation
  examplesCache,   \* getWritingExamples: the cached list, or null
  examplesCacheTime, \* getWritingExamples: the time (ms) the cached list was asked for
  clock,           \* Date.now(), in ms
  ticks,           \* the number of times the clock has advanced
  db,              \* the active writing examples in the database
  dbQueries,       \* history: the number of database queries started
  cacheCalls,      \* the calls of getWritingExamples
  originalScore,   \* /api/rewrite: originalScore of the request, in tenths, or undefined
  rewriteAttempt,  \* /api/rewrite: the loop counter attempt
  retryAttempt,    \* generateRewrite: the loop counter retryAttempt
  rewriteResult,   \* /api/rewrite: what generateRewrite returned in this attempt
  suggestedScore,  \* /api/rewrite: the score of this attempt's rewrite, or undefined
  bestResult,      \* /api/rewrite: the retained candidate, or null
  attemptLog,      \* history: the score of every finished attempt
  rewriteAiCalls,  \* history: the number of AI calls made for the request
  response,        \* /api/rewrite: the response sent
  pcRewrite,       \* position of the /api/rewrite handler
  evaluations,     \* evaluation_history: the rows of one publication and user, oldest first
  mapResponse,     \* /api/publications/:id/map: the sections of the response
  papers,          \* research_papers: the rows, by id
  putRequests,     \* PUT /api/papers/:id: the requests between their select and their update
  editorText,      \* the text in the editor, sent to /api/restructure
  serverParagraphs, \* POST /api/restructure: paragraphs
  clientParagraphs, \* applyRestructureSuggestion: paragraphs
  pcRestructure    \* position of the restructure round trip

vars == <<original, suggested, originalWords, suggestedWords, dp, i, j, ops,
          segments, pcDiff, text, report, pcRead, lastCall, keptCall, sinceKept,
          frames, inflight, sectionType, attempt, content, lastError, aiCalls,
          delays, criteriaScores, overallScore, outcome, pcEval,
          examplesCache, examplesCacheTime, clock, ticks, db, dbQueries, cacheCalls,
          originalScore, rewriteAttempt, retryAttempt, rewriteResult, suggestedScore, bestResult, attemptLog, rewriteAiCalls, response, pcRewrite,
          evaluations, mapResponse,
          papers, putRequests,
          editorText, serverParagraphs, clientParagraphs, pcRestructure>>

diffVars == <<original, suggested, originalWords, suggestedWords, dp, i, j, ops,
              segments, pcDiff>>
readVars == <<text, report, pcRead>>
callVars == <<lastCall, keptCall, sinceKept>>
concVars == <<frames, inflight>>
evalVars == <<sectionType, attempt, content, lastError, aiCalls, delays, criteriaScores,
              overallScore, outcome, pcEval>>
cacheVars == <<examplesCache, examplesCacheTime, clock, ticks, db, dbQueries, cacheCalls>>
rewriteVars == <<originalScore, rewriteAttempt, retryAttempt, rewriteResult, suggestedScore, bestResult, attemptLog, rewriteAiCalls, response, pcRewrite>>
mapVars == <<evaluations, mapResponse>>
paperVars == <<papers, putRequests>>
restructureVars == <<editorText, serverParagraphs, clientParagraphs, pcRestructure>>

(***************************************************************************)
(* Characters (JavaScript regular-expression classes, ASCII)               *)
(***************************************************************************)
UpperSeq == <<"A","B","C","D","E","F","G","H","I","J","K","L","M",
              "N","O","P","Q","R","S","T","U","V","W","X","Y","Z">>
LowerSeq == <<"a","b","c","d","e","f","g","h","i","j","k","l","m",
              "n","o","p","q","r","s","t","u","v","w","x","y","z">>
DigitSeq == <<"0","1","2","3","4","5","6","7","8","9">>

SeqRange(s) == {s[k] : k \in 1..Len(s)}

Upper == SeqRange(UpperSeq)
Lower == SeqRange(LowerSeq)
Digit == SeqRange(DigitSeq)
Alpha == Upper \cup Lower                       \* [a-zA-Z]
WordChar == Alpha \cup Digit \cup {"_"}         \* \w
WhiteSpace == {" ", "\t", "\n", "\r", "\f"}     \* \s

ToLowerMap == [c \in Upper |-> LowerSeq[CHOOSE k \in 1..26 : UpperSeq[k] = c]]
toLowerCase(c) == IF c \in Upper THEN ToLowerMap[c] ELSE c
LowerStr(s) == [k \in 1..Len(s) |-> toLowerCase(s[k])]

\* case-insensitive comparison of two strings (the i flag)
EqIgnoreCase(s, t) == LowerStr(s) = LowerStr(t)

HasAlpha(s) == \E k \in 1..Len(s) : s[k] \in Alpha      \* /[a-zA-Z]/.test(s)

\* s.substring(from-1, from-1+n), empty when it runs over the end
Sub(s, from, n) == IF from + n - 1 > Len(s) THEN <<>> ELSE SubSeq(s, from, from + n - 1)

\* does the literal pat occur in s at position p (1-based)
At(s, p, pat) == p + Len(pat) - 1 <= Len(s) /\ SubSeq(s, p, p + Len(pat) - 1) = pat
AtIgnoreCase(s, p, pat) ==
  p + Len(pat) - 1 <= Len(s) /\ EqIgnoreCase(SubSeq(s, p, p + Len(pat) - 1), pat)

\* \b between positions p-1 and p of s
WordBoundary(s, p) ==
  LET before == p > 1 /\ p - 1 <= Len(s) /\ s[p - 1] \in WordChar
      after  == p >= 1 /\ p <= Len(s) /\ s[p] \in WordChar
  IN before # after

\* concatenation of a sequence of strings
RECURSIVE Concat(_)
Concat(ss) == IF ss = <<>> THEN <<>> ELSE Head(ss) \o Concat(Tail(ss))

(***************************************************************************)
(* String.prototype.split with a whitespace pattern                        *)
(***************************************************************************)
\* the least element of a non-empty set of integers
MinOf(set) == CHOOSE x \in set : \A y \in set : x <= y

\* the least of the positions found, and hi + 1 when there is none
FirstAt(found, hi) == IF found = {} THEN hi + 1 ELSE MinOf(found)

\* the length of the longest run of characters of set that starts at position p
RunLen(s, p, set) ==
  IF p > Len(s) THEN 0
  ELSE CHOOSE n \in 0..(Len(s) - p + 1) :
         /\ p + n > Len(s) \/ s[p + n] \notin set
         /\ \A m \in 0..(n - 1) : s[p + m] \in set

\* the tokens of s[lo..hi], the maximal runs of whitespace and of other characters;
\* lo <= hi, and a token starts at lo and one ends at hi. The range is cut at a token
\* boundary near its middle and the tokens of the two halves are put together.
RECURSIVE TokensIn(_, _, _)
TokensIn(s, lo, hi) ==
  LET IsCut(b) == (s[b] \in WhiteSpace) # (s[b - 1] \in WhiteSpace)
      mid == (lo + hi + 1) \div 2
      up == FirstAt({x \in mid..hi : IsCut(x)}, hi)
      down == FirstAt({x \in (lo + 1)..(mid - 1) : IsCut(x)}, mid - 1)
      b == IF up <= hi THEN up ELSE down
  IN IF lo = hi \/ (up > hi /\ down > mid - 1) THEN << SubSeq(s, lo, hi) >>
     ELSE TokensIn(s, lo, b - 1) \o TokensIn(s, b, hi)

\* every token of s.split(/(\s+)/): the whitespace runs are kept as tokens of their
\* own, and an empty token stands before a leading and after a trailing run
AllTokens(s) ==
  IF Len(s) = 0 THEN << <<>> >>
  ELSE (IF s[1] \in WhiteSpace THEN << <<>> >> ELSE <<>>)
       \o TokensIn(s, 1, Len(s))
       \o (IF s[Len(s)] \in WhiteSpace THEN << <<>> >> ELSE <<>>)

\* mutation: split(/\s+/), the capture group lost, whitespace runs dropped
SplitKeepNoCapture(s) ==
  SelectSeq(AllTokens(s), LAMBDA t : t = <<>> \/ t[1] \notin WhiteSpace)

\* s.split(/(\s+)/)
SplitKeep(s) == AllTokens(s)

\* s.split(/\s+/): the same tokens without the whitespace runs
SplitWs(s) ==
  SelectSeq(AllTokens(s), LAMBDA t : t = <<>> \/ t[1] \notin WhiteSpace)

(***************************************************************************)
(* computeWordDiff (server/routes.ts, lines 92-137)                        *)
(***************************************************************************)
Max(a, b) == IF a >= b THEN a ELSE b
Min(a, b) == IF a <= b THEN a ELSE b

\* the code's dp[r][c] of a table held as a sequence of rows
DpAt(table, r, c) == table[r + 1][c + 1]

\* one row of the table (lines 102-108): acc holds columns 0..c-1 of row r
RECURSIVE DpRowFrom(_, _, _, _, _, _)
DpRowFrom(A, B, prev, r, c, acc) ==
  IF c > Len(B) THEN acc
  ELSE DpRowFrom(A, B, prev, r, c + 1,
         Append(acc, IF A[r] = B[c] THEN prev[c] + 1
                     ELSE Max(prev[c + 1], acc[c])))

\* the whole table (lines 99-109): rows 0..r-1 are in acc
RECURSIVE DpFrom(_, _, _, _)
DpFrom(A, B, r, acc) ==
  IF r > Len(A) THEN acc
  ELSE DpFrom(A, B, r + 1, Append(acc, DpRowFrom(A, B, acc[r], r, 1, <<0>>)))

DpTable(A, B) == DpFrom(A, B, 1, << [c \in 1..(Len(B) + 1) |-> 0] >>)

\* mutation: the tie between dp[i][j-1] and dp[i-1][j] goes to "removed"
BacktrackOpStrict(A, B, table, r, c) ==
  IF r > 0 /\ c > 0 /\ A[r] = B[c] THEN "equal"
  ELSE IF c > 0 /\ (r = 0 \/ DpAt(table, r, c - 1) > DpAt(table, r - 1, c)) THEN "added"
  ELSE "removed"

\* mutation: the table is not consulted, tokens of the original go first
BacktrackOpNoTable(A, B, table, r, c) ==
  IF r > 0 /\ c > 0 /\ A[r] = B[c] THEN "equal"
  ELSE IF r > 0 THEN "removed"
  ELSE "added"

\* mutation: a token of the modified text is skipped first whenever that keeps the
\* length of the common subsequence, before the two current tokens are compared
BacktrackOpAddFirst(A, B, table, r, c) ==
  IF c > 0 /\ (r = 0 \/ DpAt(table, r, c - 1) = DpAt(table, r, c)) THEN "added"
  ELSE IF r > 0 /\ c > 0 /\ A[r] = B[c] THEN "equal"
  ELSE "removed"

\* the branch the backtracking loop takes at (r, c), r > 0 or c > 0 (lines 116-125)
BacktrackOp(A, B, table, r, c) ==
  IF r > 0 /\ c > 0 /\ A[r] = B[c] THEN "equal"
  ELSE IF c > 0 /\ (r = 0 \/ DpAt(table, r, c - 1) >= DpAt(table, r - 1, c)) THEN "added"
  ELSE "removed"

\* the op that branch unshifts
OpOf(A, B, kind, r, c) ==
  [type |-> kind, text |-> IF kind = "added" THEN B[c] ELSE A[r]]

\* the whole backtracking loop (lines 115-126)
RECURSIVE Backtrack(_, _, _, _, _, _)
Backtrack(A, B, table, r, c, acc) ==
  IF ~(r > 0 \/ c > 0) THEN acc
  ELSE LET kind == BacktrackOp(A, B, table, r, c)
       IN Backtrack(A, B, table,
                    IF kind = "added" THEN r ELSE r - 1,
                    IF kind = "removed" THEN c ELSE c - 1,
                    <<OpOf(A, B, kind, r, c)>> \o acc)

\* mutation: only the runs of equal ops are merged
CoalesceStepEqualOnly(segs, op) ==
  IF Len(segs) > 0 /\ segs[Len(segs)].type = op.type /\ op.type = "equal"
    THEN [segs EXCEPT ![Len(segs)].text = @ \o op.text]
    ELSE Append(segs, [type |-> op.type, text |-> op.text])

\* mutation: every op becomes a segment of its own
CoalesceStepNoMerge(segs, op) == Append(segs, [type |-> op.type, text |-> op.text])

\* one iteration of the coalescing loop (lines 129-133)
CoalesceStep(segs, op) ==
  IF Len(segs) > 0 /\ segs[Len(segs)].type = op.type
    THEN [segs EXCEPT ![Len(segs)].text = @ \o op.text]
    ELSE Append(segs, [type |-> op.type, text |-> op.text])

\* the coalescing loop (lines 128-134)
RECURSIVE CoalesceFrom(_, _, _)
CoalesceFrom(opsSeq, k, segs) ==
  IF k > Len(opsSeq) THEN segs
  ELSE CoalesceFrom(opsSeq, k + 1, CoalesceStep(segs, opsSeq[k]))

Coalesce(opsSeq) == CoalesceFrom(opsSeq, 1, <<>>)

\* mutation: the result of the previous call is kept in a module-level cache that is
\* looked up by the original text alone
computeWordDiffCached(o, s) ==
  IF lastCall.fn = "computeWordDiff" /\ lastCall.input[1] = o
    THEN lastCall.output
    ELSE LET A == SplitKeep(o)
             B == SplitKeep(s)
         IN Coalesce(Backtrack(A, B, DpTable(A, B), Len(A), Len(B), <<>>))

\* the function as a whole
computeWordDiff(o, s) ==
  LET A == SplitKeep(o)
      B == SplitKeep(s)
  IN Coalesce(Backtrack(A, B, DpTable(A, B), Len(A), Len(B), <<>>))


(***************************************************************************)
(* splitIntoSentences (server/readability.ts, lines 28-65)                 *)
(***************************************************************************)
\* the patterns of the abbreviation list, as the literal text each one matches
\* (every pattern is literal characters and escaped periods), in the list's order
abbreviations == <<
  <<"e",".","g">>, <<"i",".","e">>, <<"e","t"," ","a","l">>, <<"e","t","c">>,
  <<"v","s">>, <<"c","f">>, <<"v","i","z">>, <<"i","b","i","d">>,
  <<"D","r">>, <<"P","r","o","f">>, <<"M","r">>, <<"M","r","s">>,
  <<"M","s">>, <<"J","r">>, <<"S","r">>, <<"S","t">>,
  <<"F","i","g">>, <<"F","i","g","s">>, <<"T","a","b">>, <<"E","q">>,
  <<"E","q","s">>, <<"V","o","l">>, <<"N","o">>, <<"p","p">>,
  <<"e","d">>, <<"e","d","s">>, <<"J","a","n">>, <<"F","e","b">>,
  <<"M","a","r">>, <<"A","p","r">>, <<"J","u","n">>, <<"J","u","l">>,
  <<"A","u","g">>, <<"S","e","p">>, <<"S","e","p","t">>, <<"O","c","t">>,
  <<"N","o","v">>, <<"D","e","c">>, <<"I","n","c">>, <<"C","o","r","p">>,
  <<"L","t","d">>, <<"C","o">>, <<"D","e","p","t">>, <<"U","n","i","v">>,
  <<"R","e","v">>, <<"I","n","t">>, <<"J">>, <<"a","p","p","r","o","x">>,
  <<"c","a">>, <<"c",".","f">>, <<"n",".","b">>, <<"N",".","B">>,
  <<"P",".","S">> >>

ABBR == <<"{","{","A","B","B","R","}","}">>                 \* '{{ABBR}}'
DEC == <<"{","{","D","E","C","}","}">>                   \* '{{DEC}}'
DOM == <<"{","{","D","O","M","}","}">>                   \* '{{DOM}}'
SPLIT == <<"|","S","P","L","I","T","|">>               \* '|SPLIT|'
Period == <<".">>

\* does /\b(abbr)\.(?=\s|$)/i match at position p
AbbrMatchAt(s, p, abbr) ==
  LET q == p + Len(abbr)   \* where the period must be
  IN /\ q <= Len(s)
     /\ s[q] = "."
     /\ q = Len(s) \/ s[q + 1] \in WhiteSpace
     /\ AtIgnoreCase(s, p, abbr)
     /\ WordBoundary(s, p)

\* processed.replace(pattern, '$1{{ABBR}}') for one abbreviation (flag g: matches are
\* taken from left to right and the search resumes after each match); p is where the
\* search resumes and acc the output so far
RECURSIVE ReplaceAbbrFrom(_, _, _, _)
ReplaceAbbrFrom(s, abbr, p, acc) ==
  LET q == FirstAt({x \in p..Len(s) : AbbrMatchAt(s, x, abbr)}, Len(s))
  IN IF q > Len(s) THEN acc \o SubSeq(s, p, Len(s))
     ELSE ReplaceAbbrFrom(s, abbr, q + Len(abbr) + 1,
                          acc \o SubSeq(s, p, q + Len(abbr) - 1) \o ABBR)

\* abbreviations.forEach(...), from the k-th abbreviation on (lines 41-44); nothing
\* matches in the empty string
RECURSIVE ProtectFrom(_, _)
ProtectFrom(s, k) ==
  IF k > Len(abbreviations) \/ s = <<>> THEN s
  ELSE ProtectFrom(ReplaceAbbrFrom(s, abbreviations[k], 1, <<>>), k + 1)

\* mutation: the abbreviations are not protected
ProtectAbbreviationsNone(s) == s

ProtectAbbreviations(s) == ProtectFrom(s, 1)

\* does /(\d)\.(\d)/ match at position p
DecimalMatchAt(s, p) ==
  p + 2 <= Len(s) /\ s[p] \in Digit /\ s[p + 1] = "." /\ s[p + 2] \in Digit

\* processed.replace(/(\d)\.(\d)/g, '$1{{DEC}}$2') (line 47)
RECURSIVE ProtectDecimalsFrom(_, _, _)
ProtectDecimalsFrom(s, p, acc) ==
  LET q == FirstAt({x \in p..Len(s) : DecimalMatchAt(s, x)}, Len(s))
  IN IF q > Len(s) THEN acc \o SubSeq(s, p, Len(s))
     ELSE ProtectDecimalsFrom(s, q + 3,
            acc \o SubSeq(s, p, q) \o DEC \o <<s[q + 2]>>)

ProtectDecimals(s) == ProtectDecimalsFrom(s, 1, <<>>)

\* (com|org|edu|gov|net|io)
domains == << <<"c","o","m">>, <<"o","r","g">>, <<"e","d","u">>,
              <<"g","o","v">>, <<"n","e","t">>, <<"i","o">> >>

\* the alternatives of /(\w)\.(com|org|edu|gov|net|io)\b/i that match at p
DomainMatchesAt(s, p) ==
  IF p + 1 <= Len(s) /\ s[p] \in WordChar /\ s[p + 1] = "."
    THEN {k \in 1..Len(domains) :
            /\ AtIgnoreCase(s, p + 2, domains[k])
            /\ WordBoundary(s, p + 2 + Len(domains[k]))}
    ELSE {}

\* processed.replace(/(\w)\.(com|org|edu|gov|net|io)\b/gi, '$1{{DOM}}$2') (line 50)
RECURSIVE ProtectDomainsFrom(_, _, _)
ProtectDomainsFrom(s, p, acc) ==
  LET q == FirstAt({x \in p..Len(s) : DomainMatchesAt(s, x) # {}}, Len(s))
  IN IF q > Len(s) THEN acc \o SubSeq(s, p, Len(s))
     ELSE LET ks == DomainMatchesAt(s, q)
              k == MinOf(ks)
              n == Len(domains[k])
          IN ProtectDomainsFrom(s, q + 2 + n,
               acc \o SubSeq(s, p, q) \o DOM \o SubSeq(s, q + 2, q + 1 + n))

ProtectDomains(s) == ProtectDomainsFrom(s, 1, <<>>)

Closers == {"'", "\"", ")", "]"}       \* ['"\)\]]
Terminators == {".", "!", "?"}         \* [.!?]

\* the first position after a match of /([.!?])(['"\)\]]*)\s+(?=[A-Z0-9]|$)/ at p, and
\* 0 when there is no match at p. A match takes the whole run of closers (a shorter
\* run is followed by a closer, not by whitespace) and the whole run of whitespace (a
\* shorter run is followed by whitespace, which the lookahead refuses).
SplitMatchEnd(s, p) ==
  LET c == RunLen(s, p + 1, Closers)
      w == RunLen(s, p + 1 + c, WhiteSpace)
      q == p + 1 + c + w
  IN IF /\ s[p] \in Terminators
        /\ w >= 1
        /\ q > Len(s) \/ s[q] \in (Upper \cup Digit)
       THEN q ELSE 0

\* .replace(/([.!?])(['"\)\]]*)\s+(?=[A-Z0-9]|$)/g, '$1$2|SPLIT|') (line 57)
RECURSIVE MarkSplitsFrom(_, _, _)
MarkSplitsFrom(s, p, acc) ==
  LET q == FirstAt({x \in p..Len(s) : SplitMatchEnd(s, x) > 0}, Len(s))
  IN IF q > Len(s) THEN acc \o SubSeq(s, p, Len(s))
     ELSE MarkSplitsFrom(s, SplitMatchEnd(s, q),
            acc \o SubSeq(s, p, q + RunLen(s, q + 1, Closers)) \o SPLIT)

MarkSplits(s) == MarkSplitsFrom(s, 1, <<>>)

\* s.split(sep) for a non-empty literal sep; p is where the current piece starts
RECURSIVE SplitOnFrom(_, _, _, _)
SplitOnFrom(s, sep, p, acc) ==
  LET q == FirstAt({x \in p..Len(s) : At(s, x, sep)}, Len(s))
  IN IF q > Len(s) THEN Append(acc, SubSeq(s, p, Len(s)))
     ELSE SplitOnFrom(s, sep, q + Len(sep), Append(acc, SubSeq(s, p, q - 1)))

SplitOn(s, sep) == SplitOnFrom(s, sep, 1, <<>>)

\* s.trim()
trim(s) ==
  LET lead == RunLen(s, 1, WhiteSpace)
      keep == {k \in 1..Len(s) : s[k] \notin WhiteSpace}
  IN IF keep = {} THEN <<>>
     ELSE SubSeq(s, lead + 1, CHOOSE k \in keep : \A m \in keep : m <= k)

\* s.replace(/pat/g, rep) for a literal pat
RECURSIVE ReplaceAllFrom(_, _, _, _, _)
ReplaceAllFrom(s, pat, rep, p, acc) ==
  LET q == FirstAt({x \in p..Len(s) : At(s, x, pat)}, Len(s))
  IN IF q > Len(s) THEN acc \o SubSeq(s, p, Len(s))
     ELSE ReplaceAllFrom(s, pat, rep, q + Len(pat), acc \o SubSeq(s, p, q - 1) \o rep)

ReplaceAll(s, pat, rep) == ReplaceAllFrom(s, pat, rep, 1, <<>>)

\* line 61: restore the placeholders
RestorePlaceholders(s) ==
  ReplaceAll(ReplaceAll(ReplaceAll(s, ABBR, Period), DEC, Period), DOM, Period)

\* lines 56-61: the pieces between the split markers, trimmed, placeholders restored
sentencePieces(t) ==
  LET processed == ProtectDomains(ProtectDecimals(ProtectAbbreviations(t)))
      pieces == SplitOn(MarkSplits(processed), SPLIT)
  IN [k \in 1..Len(pieces) |-> RestorePlaceholders(trim(pieces[k]))]

splitIntoSentences(t) ==
  SelectSeq(sentencePieces(t), LAMBDA x : Len(x) > 0 /\ HasAlpha(x))

(***************************************************************************)
(* countWords, isPassiveVoice, countSyllables, getFleschGrade              *)
(* (server/readability.ts, lines 4-26 and 67-96)                           *)
(***************************************************************************)
LONG_SENTENCE_THRESHOLD == 25

\* sentence.split(/\s+/).filter(w => w.length > 0).length
countWords(sentence) == Len(SelectSeq(SplitWs(sentence), LAMBDA w : Len(w) > 0))

\* (am|is|are|was|were|be|been|being)
auxiliaries == <<
  <<"a","m">>, <<"i","s">>, <<"a","r","e">>, <<"w","a","s">>,
  <<"w","e","r","e">>, <<"b","e">>, <<"b","e","e","n">>, <<"b","e","i","n","g">> >>

\* (done|made|given|taken|seen|known|shown|found|used|called)
participles == <<
  <<"d","o","n","e">>, <<"m","a","d","e">>, <<"g","i","v","e","n">>, <<"t","a","k","e","n">>,
  <<"s","e","e","n">>, <<"k","n","o","w","n">>, <<"s","h","o","w","n">>, <<"f","o","u","n","d">>,
  <<"u","s","e","d">>, <<"c","a","l","l","e","d">> >>

\* the (auxiliary, be/been) pairs of the patterns of lines 74-81
modalPairs == <<
  << <<"h","a","s">>, <<"b","e","e","n">> >>,
  << <<"h","a","v","e">>, <<"b","e","e","n">> >>,
  << <<"h","a","d">>, <<"b","e","e","n">> >>,
  << <<"w","i","l","l">>, <<"b","e">> >>,
  << <<"c","a","n">>, <<"b","e">> >>,
  << <<"m","a","y">>, <<"b","e">> >>,
  << <<"m","u","s","t">>, <<"b","e">> >>,
  << <<"s","h","o","u","l","d">>, <<"b","e">> >>,
  << <<"w","o","u","l","d">>, <<"b","e">> >>,
  << <<"c","o","u","l","d">>, <<"b","e">> >> >>

ED == <<"e","d">>

\* \w+ed\b at position p, or with listed also (done|made|...)\b: the match ends with
\* the run of word characters that starts at p, since \b must follow it
ParticipleAt(s, p, listed) ==
  LET n == RunLen(s, p, WordChar)
  IN \/ n >= 3 /\ AtIgnoreCase(s, p + n - 2, ED)
     \/ /\ listed
        /\ \E k \in 1..Len(participles) : LowerStr(SubSeq(s, p, p + n - 1)) = participles[k]

\* word at p, then \s+; the position after the whitespace, 0 when there is no match
AfterWord(s, p, word) ==
  LET q == p + Len(word)
      w == RunLen(s, q, WhiteSpace)
  IN IF p >= 1 /\ AtIgnoreCase(s, p, word) /\ w >= 1 THEN q + w ELSE 0

\* line 73, matched at position p
PassiveAt(s, p) ==
  /\ WordBoundary(s, p)
  /\ \E k \in 1..Len(auxiliaries) :
       LET q == AfterWord(s, p, auxiliaries[k])
       IN q > 0 /\ ParticipleAt(s, q, TRUE)

\* lines 74-81, matched at position p
ModalPassiveAt(s, p) ==
  /\ WordBoundary(s, p)
  /\ \E k \in 1..Len(modalPairs) :
       LET q == AfterWord(s, p, modalPairs[k][1])
           r == IF q > 0 THEN AfterWord(s, q, modalPairs[k][2]) ELSE 0
       IN r > 0 /\ ParticipleAt(s, r, FALSE)

isPassiveVoice(sentence) ==
  \E p \in 1..Len(sentence) : PassiveAt(sentence, p) \/ ModalPassiveAt(sentence, p)

Vowels == {"a", "e", "i", "o", "u", "y"}

\* the number of vowel groups of a lower-case word (lines 17-23)
RECURSIVE VowelGroupsFrom(_, _, _)
VowelGroupsFrom(w, p, prevVowel) ==
  IF p > Len(w) THEN 0
  ELSE (IF w[p] \in Vowels /\ ~prevVowel THEN 1 ELSE 0)
       + VowelGroupsFrom(w, p + 1, w[p] \in Vowels)

\* the estimator of the syllable package, which is not part of the repository: it is
\* taken to count as the function's own fallback does
syllable(cleaned) == VowelGroupsFrom(cleaned, 1, FALSE)

countSyllables(word) ==
  LET cleaned == SelectSeq(LowerStr(word), LAMBDA c : c \in Lower)
  IN IF Len(cleaned) = 0 THEN 0 ELSE Max(1, syllable(cleaned))

\* the score is the fraction num / den, den > 0
getFleschGrade(num, den) ==
  IF num >= 90 * den THEN "Very Easy (5th grade)"
  ELSE IF num >= 80 * den THEN "Easy (6th grade)"
  ELSE IF num >= 70 * den THEN "Fairly Easy (7th grade)"
  ELSE IF num >= 60 * den THEN "Standard (8th-9th grade)"
  ELSE IF num >= 50 * den THEN "Fairly Difficult (10th-12th grade)"
  ELSE IF num >= 30 * den THEN "Difficult (College)"
  ELSE IF num >= 10 * den THEN "Very Difficult (Graduate)"
  ELSE "Extremely Difficult (Professional)"

(***************************************************************************)
(* analyzeReadability (server/readability.ts, lines 98-182)                *)
(***************************************************************************)
\* mutation: the grade of a score of 0 instead of the fixed label
ZeroReportGraded ==
  [fleschScore |-> 0, fleschGrade |-> "Extremely Difficult (Professional)",
   avgSentenceLength |-> 0, avgWordLength |-> 0, passiveVoicePercent |-> 0,
   longSentences |-> <<>>, totalSentences |-> 0, totalWords |-> 0]

\* lines 103-112 and 119-128
ZeroReport ==
  [fleschScore |-> 0, fleschGrade |-> "Unable to analyze",
   avgSentenceLength |-> 0, avgWordLength |-> 0, passiveVoicePercent |-> 0,
   longSentences |-> <<>>, totalSentences |-> 0, totalWords |-> 0]

\* mutation: every non-empty token counts as a word
WordsOfAny(t) == SelectSeq(SplitWs(t), LAMBDA w : Len(w) > 0)

\* line 115
WordsOf(t) == SelectSeq(SplitWs(t), HasAlpha)

\* line 131: the sum of countSyllables over words[lo..hi], by halves
RECURSIVE SyllablesIn(_, _, _)
SyllablesIn(words, lo, hi) ==
  IF lo > hi THEN 0
  ELSE IF lo = hi THEN countSyllables(words[lo])
  ELSE LET mid == (lo + hi) \div 2
       IN SyllablesIn(words, lo, mid) + SyllablesIn(words, mid + 1, hi)

\* line 137: the raw score is RawFleschNum / FleschDen, with
\* 206.835 = 41367/200, 1.015 = 203/200 and 84.6 = 16920/200
RawFleschNum(W, S, Y) == 41367 * S * W - 203 * W * W - 16920 * Y * S
FleschDen(W, S) == 200 * S * W

\* mutation: the score is not clamped
ClampNumNone(num, den) == num

\* line 145: Math.max(0, Math.min(100, raw)), on the numerator
ClampNum(num, den) == Max(0, Min(100 * den, num))

\* Math.round(num / den) for num >= 0 and den > 0 (halves go up)
\* mutation: Math.floor
FloorDiv(num, den) == num \div den

RoundDiv(num, den) == (2 * num + den) \div (2 * den)

AppendWord(truncated, word) ==
  IF truncated = <<>> THEN word ELSE truncated \o <<" ">> \o word

\* the loop of lines 158-161
RECURSIVE TruncateFrom(_, _, _)
TruncateFrom(words, k, truncated) ==
  IF k > Len(words) THEN truncated
  ELSE IF Len(truncated) + Len(words[k]) + 1 > 147 THEN truncated
  ELSE TruncateFrom(words, k + 1, AppendWord(truncated, words[k]))

\* mutation: the sentence is cut at 147 characters
displayTextCut(sentence) ==
  IF Len(sentence) > 150
    THEN SubSeq(sentence, 1, 147) \o <<".", ".", ".">>
    ELSE sentence

\* lines 154-163
displayText(sentence) ==
  IF Len(sentence) > 150
    THEN TruncateFrom(SplitWs(sentence), 1, <<>>) \o <<".", ".", ".">>
    ELSE sentence

\* lines 150-170
RECURSIVE LongSentencesFrom(_, _)
LongSentencesFrom(sentences, k) ==
  IF k > Len(sentences) THEN <<>>
  ELSE LET wordCount == countWords(sentences[k])
       IN (IF wordCount > LONG_SENTENCE_THRESHOLD
             THEN << [text |-> displayText(sentences[k]), wordCount |-> wordCount,
                      position |-> k] >>
             ELSE <<>>)
          \o LongSentencesFrom(sentences, k + 1)

\* mutation: slice(-5)
LastFive(list) == SubSeq(list, Max(1, Len(list) - 4), Len(list))

\* mutation: the list is returned whole
FirstFiveAll(list) == list

\* longSentences.slice(0, 5)
FirstFive(list) == SubSeq(list, 1, Min(5, Len(list)))

\* lines 100-181: the report of text t, given its sentences
ReportFrom(t, sentences) ==
  LET totalSentences == Len(sentences)
      words == WordsOf(t)
      totalWords == Len(words)
      totalSyllables == SyllablesIn(words, 1, Len(words))
      den == FleschDen(totalWords, totalSentences)
      fleschNum == ClampNum(RawFleschNum(totalWords, totalSentences, totalSyllables), den)
      passiveSentences == Len(SelectSeq(sentences, isPassiveVoice))
  IN IF totalSentences = 0 THEN ZeroReport
     ELSE IF totalWords = 0 THEN ZeroReport
     ELSE [fleschScore |-> RoundDiv(10 * fleschNum, den),
           fleschGrade |-> getFleschGrade(fleschNum, den),
           avgSentenceLength |-> RoundDiv(10 * totalWords, totalSentences),
           avgWordLength |-> RoundDiv(100 * totalSyllables, totalWords),
           passiveVoicePercent |-> RoundDiv(100 * passiveSentences, totalSentences),
           longSentences |-> FirstFive(LongSentencesFrom(sentences, 1)),
           totalSentences |-> totalSentences,
           totalWords |-> totalWords]

analyzeReadability(t) == ReportFrom(t, splitIntoSentences(t))


(***************************************************************************)
(* One invocation of computeWordDiff, step by step                         *)
(***************************************************************************)
MaxDiffLen == 3
DiffAlphabet == {"a", "b", " "}

\* all strings over alphabet of at most n characters
StringsUpTo(alphabet, n) == UNION {[1..k -> alphabet] : k \in 0..n}

\* the example of the diff's documentation
ExampleOriginal == <<"T","h","e"," ","q","u","i","c","k"," ","f","o","x">>
ExampleSuggested == <<"T","h","e"," ","q","u","i","c","k"," ","b","r","o","w","n"," ","f","o","x">>

DiffInputs ==
  (StringsUpTo(DiffAlphabet, MaxDiffLen) \X StringsUpTo(DiffAlphabet, MaxDiffLen))
    \cup {<<ExampleOriginal, ExampleSuggested>>}

NoReport ==
  [fleschScore |-> 0, fleschGrade |-> "none", avgSentenceLength |-> 0,
   avgWordLength |-> 0, passiveVoicePercent |-> 0, longSentences |-> <<>>,
   totalSentences |-> 0, totalWords |-> 0]
NoCall == [fn |-> "none", input |-> <<>>, output |-> <<>>]

DiffIdle ==
  /\ original = <<>> /\ suggested = <<>>
  /\ originalWords = <<>> /\ suggestedWords = <<>>
  /\ dp = <<>> /\ i = 0 /\ j = 0 /\ ops = <<>> /\ segments = <<>>
  /\ pcDiff = "idle"
ReadIdle == text = <<>> /\ report = NoReport /\ pcRead = "idle"
CallIdle == lastCall = NoCall /\ keptCall = NoCall /\ sinceKept = 0

\* the requests in flight at the same time
NumRequests == 2
Requests == 1..NumRequests

\* the locals of an invocation that has not started
NoFrame ==
  [original |-> <<>>, suggested |-> <<>>, originalWords |-> <<>>, suggestedWords |-> <<>>,
   dp |-> <<>>, i |-> 0, j |-> 0, ops |-> <<>>, text |-> <<>>, sentences |-> <<>>]
NoRequest ==
  [pc |-> "idle", fn |-> "none", input |-> <<>>, result |-> <<>>, overlapped |-> FALSE]
ConcIdle ==
  /\ frames = [r \in Requests |-> NoFrame]
  /\ inflight = [r \in Requests |-> NoRequest]

\* JavaScript numbers: a value (scores in tenths) or NaN
Num(v) == [nan |-> FALSE, v |-> v]
NaN == [nan |-> TRUE, v |-> 0]

\* content of an AI response: null, undefined or "" (empty), text that JSON.parse or the
\* access to .criteria rejects (malformed), or a JSON object with its criteria
EmptyContent == [kind |-> "empty", criteria |-> <<>>]
NoError == [kind |-> "null", attempt |-> 0]
NoOutcome == [kind |-> "none", error |-> NoError]
EvalIdle ==
  /\ sectionType = "none" /\ attempt = 0 /\ content = EmptyContent /\ lastError = NoError
  /\ aiCalls = <<>> /\ delays = <<>> /\ criteriaScores = <<>> /\ overallScore = Num(0)
  /\ outcome = NoOutcome /\ pcEval = "idle"

\* routes.ts 41-43: let examplesCache = null; let examplesCacheTime = 0; CACHE_TTL = 5 * 60 * 1000
NullCache == [set |-> FALSE, list |-> <<>>]
Cached(list) == [set |-> TRUE, list |-> list]
CACHE_TTL == 300000
NumCalls == 2
Callers == 1..NumCalls
\* a call: its position, the time read at line 46, the age of the cached list it found
\* (-1 for none), whether it sent a query, the rows the query read and the returned value
NoCacheCall == [pc |-> "idle", now |-> 0, age |-> -1, queried |-> FALSE, rows |-> <<>>,
                result |-> <<>>, ok |-> FALSE]
CacheIdle ==
  /\ examplesCache = NullCache /\ examplesCacheTime = 0 /\ clock = 0 /\ ticks = 0
  /\ db = <<>> /\ dbQueries = 0 /\ cacheCalls = <<>>

\* /api/rewrite (routes.ts 782-1170): optional numbers, the candidate and the response
Undefined == [def |-> FALSE, val |-> Num(0)]
Defined(x) == [def |-> TRUE, val |-> x]
NullResult == [set |-> FALSE, attempt |-> 0, suggestedScore |-> Undefined]
NoResponse == [status |-> 0, cause |-> "none", suggestedText |-> "none", attempt |-> 0,
               changes |-> "none", suggestedScore |-> Undefined, noImprovementFound |-> FALSE]
RewriteIdle ==
  /\ originalScore = Undefined /\ rewriteAttempt = 0 /\ retryAttempt = 0
  /\ rewriteResult = "none" /\ suggestedScore = Undefined /\ bestResult = NullResult
  /\ attemptLog = <<>> /\ rewriteAiCalls = 0 /\ response = NoResponse /\ pcRewrite = "idle"

\* /api/publications/:id/map (routes.ts 1380-1460)
NoMap == [sent |-> FALSE, seen |-> 0, sections |-> <<>>]
MapIdle == evaluations = <<>> /\ mapResponse = NoMap

\* /api/papers (routes.ts 1172-1262)
PapersIdle == papers = <<>> /\ putRequests = <<>>

\* restructure suggestions (routes.ts 660-780, unnamed/part_002 247-346)
RestructureIdle ==
  /\ editorText = <<>> /\ serverParagraphs = <<>> /\ clientParagraphs = <<>>
  /\ pcRestructure = "idle"

InitDiff ==
  /\ \E pair \in DiffInputs : original = pair[1] /\ suggested = pair[2]
  /\ originalWords = <<>> /\ suggestedWords = <<>>
  /\ dp = <<>> /\ i = 0 /\ j = 0 /\ ops = <<>> /\ segments = <<>>
  /\ pcDiff = "start"
  /\ ReadIdle /\ CallIdle /\ ConcIdle /\ EvalIdle /\ CacheIdle /\ RewriteIdle /\ MapIdle /\ PapersIdle /\ RestructureIdle

\* lines 93-113: tokenise, fill the table, start at the bottom right corner
DiffTokenize ==
  /\ pcDiff = "start"
  /\ originalWords' = SplitKeep(original)
  /\ suggestedWords' = SplitKeep(suggested)
  /\ dp' = DpTable(originalWords', suggestedWords')
  /\ i' = Len(originalWords')
  /\ j' = Len(suggestedWords')
  /\ ops' = <<>>
  /\ segments' = <<>>
  /\ pcDiff' = "backtrack"
  /\ UNCHANGED <<original, suggested, readVars, callVars, concVars, evalVars, cacheVars, rewriteVars, mapVars, paperVars, restructureVars>>

\* lines 116-118
DiffTakeEqual ==
  /\ pcDiff = "backtrack" /\ (i > 0 \/ j > 0)
  /\ BacktrackOp(originalWords, suggestedWords, dp, i, j) = "equal"
  /\ ops' = <<OpOf(originalWords, suggestedWords, "equal", i, j)>> \o ops
  /\ i' = i - 1 /\ j' = j - 1
  /\ UNCHANGED <<original, suggested, originalWords, suggestedWords, dp, segments,
                 pcDiff, readVars, callVars, concVars, evalVars, cacheVars, rewriteVars, mapVars, paperVars, restructureVars>>

\* lines 119-121
DiffTakeAdded ==
  /\ pcDiff = "backtrack" /\ (i > 0 \/ j > 0)
  /\ BacktrackOp(originalWords, suggestedWords, dp, i, j) = "added"
  /\ ops' = <<OpOf(originalWords, suggestedWords, "added", i, j)>> \o ops
  /\ j' = j - 1
  /\ UNCHANGED <<original, suggested, originalWords, suggestedWords, dp, i, segments,
                 pcDiff, readVars, callVars, concVars, evalVars, cacheVars, rewriteVars, mapVars, paperVars, restructureVars>>

\* lines 122-124
DiffTakeRemoved ==
  /\ pcDiff = "backtrack" /\ (i > 0 \/ j > 0)
  /\ BacktrackOp(originalWords, suggestedWords, dp, i, j) = "removed"
  /\ ops' = <<OpOf(originalWords, suggestedWords, "removed", i, j)>> \o ops
  /\ i' = i - 1
  /\ UNCHANGED <<original, suggested, originalWords, suggestedWords, dp, j, segments,
                 pcDiff, readVars, callVars, concVars, evalVars, cacheVars, rewriteVars, mapVars, paperVars, restructureVars>>

\* lines 128-136: the loop has ended; coalesce and return
DiffCoalesce ==
  /\ pcDiff = "backtrack" /\ ~(i > 0 \/ j > 0)
  /\ segments' = Coalesce(ops)
  /\ pcDiff' = "done"
  /\ UNCHANGED <<original, suggested, originalWords, suggestedWords, dp, i, j, ops,
                 readVars, callVars, concVars, evalVars, cacheVars, rewriteVars, mapVars, paperVars, restructureVars>>

NextDiff ==
  \/ DiffTokenize
  \/ DiffTakeEqual
  \/ DiffTakeAdded
  \/ DiffTakeRemoved
  \/ DiffCoalesce

DiffSpec == InitDiff /\ [][NextDiff]_vars

\* the text of the segments of the given types, in order
TextOf(segs, types) ==
  Concat([k \in 1..Len(segs) |-> IF segs[k].type \in types THEN segs[k].text ELSE <<>>])

DiffDone == pcDiff = "done"

\* C1: the equal and removed segments, concatenated in order, give original;
\* the equal and added segments, concatenated in order, give the modified text
C1_RoundTrip ==
  DiffDone =>
    /\ TextOf(segments, {"equal", "removed"}) = original
    /\ TextOf(segments, {"equal", "added"}) = suggested

C1_Witness ==
  /\ DiffDone
  /\ \E k \in 1..Len(segments) : segments[k].type = "equal" /\ segments[k].text # <<>>
  /\ \E k \in 1..Len(segments) : segments[k].type = "added" /\ segments[k].text # <<>>
  /\ \E k \in 1..Len(segments) : segments[k].type = "removed" /\ segments[k].text # <<>>
  /\ \E k \in 1..Len(original) : original[k] \in WhiteSpace

\* C2: the diff of a string with itself is one equal segment holding the whole string
C2_SelfDiff ==
  (DiffDone /\ original = suggested) =>
    segments = << [type |-> "equal", text |-> original] >>

C2_Witness ==
  DiffDone /\ original = suggested /\ Len(originalWords) >= 3

Seg(kind, txt) == [type |-> kind, text |-> txt]

ExampleCall == original = ExampleOriginal /\ suggested = ExampleSuggested

\* C3 as stated: the example gives equal "The quick ", added "brown ", equal "fox"
C3_AsStated ==
  (DiffDone /\ ExampleCall) =>
    segments = << Seg("equal", <<"T","h","e"," ","q","u","i","c","k"," ">>), Seg("added", <<"b","r","o","w","n"," ">>), Seg("equal", <<"f","o","x">>) >>

\* C3 as amended: the example gives equal "The quick", added " brown", equal " fox"
C3_Example ==
  (DiffDone /\ ExampleCall) =>
    segments = << Seg("equal", <<"T","h","e"," ","q","u","i","c","k">>), Seg("added", <<" ","b","r","o","w","n">>), Seg("equal", <<" ","f","o","x">>) >>

C3_Witness == DiffDone /\ ExampleCall /\ Len(segments) = 3

\* C4 as stated: with an empty input the result is the empty list or one segment
\* that is all added or all removed
C4_AsStated ==
  (DiffDone /\ (original = <<>> \/ suggested = <<>>)) =>
    \/ segments = <<>>
    \/ Len(segments) = 1 /\ segments[1].type \in {"added", "removed"}


(***************************************************************************)
(* One invocation of analyzeReadability                                    *)
(***************************************************************************)
MaxTextLen == 4
MaxSentences == 8
ReadAlphabet == {"a", "J", "1", ".", "?", " "}

\* the example of the abbreviation rule
TextDrSmith ==
  <<"D","r","."," ","S","m","i","t","h"," ","a","r","r","i","v","e","d",".",
    " ","T","h","e"," ","r","e","s","u","l","t","s"," ","w","e","r","e"," ",
    "s","i","g","n","i","f","i","c","a","n","t",".">>

\* the documented easy example
TextCatMat ==
  <<"T","h","e"," ","c","a","t"," ","s","a","t"," ","o","n"," ","t","h","e",
    " ","m","a","t","."," ","I","t"," ","w","a","s"," ","a"," ","n","i","c",
    "e"," ","d","a","y",".">>

\* test-flesch.ts: Simple conversational text
TextSimple ==
  <<"T","h","e"," ","c","a","t"," ","s","a","t"," ","o","n"," ","t","h","e",
    " ","m","a","t","."," ","I","t"," ","w","a","s"," ","a"," ","n","i","c",
    "e"," ","d","a","y","."," ","T","h","e"," ","s","u","n"," ","w","a","s",
    " ","o","u","t","."," ","B","i","r","d","s"," ","w","e","r","e"," ","s",
    "i","n","g","i","n","g","."," ","L","i","f","e"," ","w","a","s"," ","g",
    "o","o","d",".">>

\* test-flesch.ts: Text with abbreviations
TextAbbreviations ==
  <<"A","c","c","o","r","d","i","n","g"," ","t","o"," ","D","r","."," ","S",
    "m","i","t","h",","," ","t","h","e"," ","e","x","p","e","r","i","m","e",
    "n","t"," ","w","a","s"," ","s","u","c","c","e","s","s","f","u","l",".",
    " ","T","h","e"," ","r","e","s","u","l","t","s",","," ","i",".","e",".",
    ","," ","t","h","e"," ","m","e","a","s","u","r","e","d"," ","v","a","l",
    "u","e","s",","," ","w","e","r","e"," ","w","i","t","h","i","n"," ","a",
    "c","c","e","p","t","a","b","l","e"," ","r","a","n","g","e","s","."," ",
    "P","r","o","f","."," ","J","o","n","e","s"," ","e","t"," ","a","l",".",
    " ","c","o","n","f","i","r","m","e","d"," ","s","i","m","i","l","a","r",
    " ","f","i","n","d","i","n","g","s"," ","i","n"," ","t","h","e","i","r",
    " ","2","0","2","3"," ","s","t","u","d","y","."," ","F","i","g","."," ",
    "1"," ","s","h","o","w","s"," ","t","h","e"," ","m","e","t","h","o","d",
    "o","l","o","g","y"," ","u","s","e","d",".">>

\* test-flesch.ts: Text with numbers and data
TextNumbers ==
  <<"T","h","e"," ","t","e","m","p","e","r","a","t","u","r","e"," ","w","a",
    "s"," ","9","8",".","6"," ","d","e","g","r","e","e","s","."," ","T","h",
    "e"," ","s","a","m","p","l","e"," ","s","i","z","e"," ","w","a","s"," ",
    "2",",","5","0","0"," ","p","a","r","t","i","c","i","p","a","n","t","s",
    "."," ","W","e"," ","o","b","s","e","r","v","e","d"," ","a"," ","p","-",
    "v","a","l","u","e"," ","o","f"," ","0",".","0","5"," ","i","n"," ","o",
    "u","r"," ","s","t","a","t","i","s","t","i","c","a","l"," ","a","n","a",
    "l","y","s","i","s","."," ","T","h","e"," ","c","o","r","r","e","l","a",
    "t","i","o","n"," ","c","o","e","f","f","i","c","i","e","n","t"," ","w",
    "a","s"," ","r"," ","="," ","0",".","7","8",".">>

\* test-flesch.ts: Single very long sentence
TextRunOn ==
  <<"D","e","s","p","i","t","e"," ","t","h","e"," ","n","u","m","e","r","o",
    "u","s"," ","c","h","a","l","l","e","n","g","e","s"," ","t","h","a","t",
    " ","r","e","s","e","a","r","c","h","e","r","s"," ","f","a","c","e"," ",
    "w","h","e","n"," ","a","t","t","e","m","p","t","i","n","g"," ","t","o",
    " ","c","o","n","d","u","c","t"," ","l","o","n","g","i","t","u","d","i",
    "n","a","l"," ","s","t","u","d","i","e","s"," ","i","n"," ","o","r","g",
    "a","n","i","z","a","t","i","o","n","a","l"," ","s","e","t","t","i","n",
    "g","s",","," ","i","n","c","l","u","d","i","n","g"," ","i","s","s","u",
    "e","s"," ","r","e","l","a","t","e","d"," ","t","o"," ","p","a","r","t",
    "i","c","i","p","a","n","t"," ","a","t","t","r","i","t","i","o","n",",",
    " ","m","e","a","s","u","r","e","m","e","n","t"," ","c","o","n","s","i",
    "s","t","e","n","c","y"," ","o","v","e","r"," ","t","i","m","e",","," ",
    "a","n","d"," ","t","h","e"," ","d","i","f","f","i","c","u","l","t","i",
    "e","s"," ","i","n","h","e","r","e","n","t"," ","i","n"," ","c","o","n",
    "t","r","o","l","l","i","n","g"," ","f","o","r"," ","c","o","n","f","o",
    "u","n","d","i","n","g"," ","v","a","r","i","a","b","l","e","s"," ","t",
    "h","a","t"," ","m","a","y"," ","e","m","e","r","g","e"," ","d","u","r",
    "i","n","g"," ","e","x","t","e","n","d","e","d"," ","d","a","t","a"," ",
    "c","o","l","l","e","c","t","i","o","n"," ","p","e","r","i","o","d","s",
    ","," ","t","h","e"," ","b","e","n","e","f","i","t","s"," ","o","f"," ",
    "s","u","c","h"," ","a","p","p","r","o","a","c","h","e","s"," ","i","n",
    " ","t","e","r","m","s"," ","o","f"," ","e","s","t","a","b","l","i","s",
    "h","i","n","g"," ","c","a","u","s","a","l"," ","r","e","l","a","t","i",
    "o","n","s","h","i","p","s"," ","a","n","d"," ","u","n","d","e","r","s",
    "t","a","n","d","i","n","g"," ","d","e","v","e","l","o","p","m","e","n",
    "t","a","l"," ","t","r","a","j","e","c","t","o","r","i","e","s"," ","a",
    "r","e"," ","w","i","d","e","l","y"," ","r","e","c","o","g","n","i","z",
    "e","d"," ","i","n"," ","t","h","e"," ","m","e","t","h","o","d","o","l",
    "o","g","i","c","a","l"," ","l","i","t","e","r","a","t","u","r","e",".">>

\* test-flesch.ts: Quoted workplace content
TextQuoted ==
  <<"T","h","e"," ","s","t","u","d","y"," ","f","o","u","n","d"," ","t","h",
    "a","t"," ","\"","e","m","p","l","o","y","e","e"," ","e","n","g","a","g",
    "e","m","e","n","t"," ","d","i","r","e","c","t","l","y"," ","i","m","p",
    "a","c","t","s"," ","p","r","o","d","u","c","t","i","v","i","t","y",".",
    "\""," ","P","a","r","t","i","c","i","p","a","n","t","s"," ","r","e","p",
    "o","r","t","e","d"," ","f","e","e","l","i","n","g"," ","\"","m","o","r",
    "e"," ","m","o","t","i","v","a","t","e","d"," ","w","h","e","n"," ","g",
    "i","v","e","n"," ","a","u","t","o","n","o","m","y",".","\""," ","O","n",
    "e"," ","m","a","n","a","g","e","r"," ","s","t","a","t","e","d",","," ",
    "\"","W","e"," ","s","a","w"," ","i","m","m","e","d","i","a","t","e"," ",
    "i","m","p","r","o","v","e","m","e","n","t","s"," ","a","f","t","e","r",
    " ","t","h","e"," ","t","r","a","i","n","i","n","g"," ","p","r","o","g",
    "r","a","m",".","\"">>

\* test-flesch.ts: Formula Diagnostics
TextDiagnostics ==
  <<"T","h","i","s"," ","s","t","u","d","y"," ","e","x","a","m","i","n","e",
    "s"," ","t","h","e"," ","r","e","l","a","t","i","o","n","s","h","i","p",
    " ","b","e","t","w","e","e","n"," ","o","r","g","a","n","i","z","a","t",
    "i","o","n","a","l"," ","c","u","l","t","u","r","e"," ","a","n","d"," ",
    "e","m","p","l","o","y","e","e"," ","p","e","r","f","o","r","m","a","n",
    "c","e","."," ","W","e"," ","c","o","l","l","e","c","t","e","d"," ","d",
    "a","t","a"," ","f","r","o","m"," ","5","0","0"," ","p","a","r","t","i",
    "c","i","p","a","n","t","s"," ","a","c","r","o","s","s"," ","1","2"," ",
    "c","o","m","p","a","n","i","e","s",".">>

\* a one-word sentence
TextGo ==
  <<"G","o",".">>

\* domain names
TextDomains ==
  <<"V","i","s","i","t"," ","e","x","a","m","p","l","e",".","c","o","m"," ",
    "t","o","d","a","y","."," ","M","a","i","l"," ","u","s"," ","a","t"," ",
    "i","n","f","o",".","o","r","g"," ","o","r"," ","t","e","s","t",".","i",
    "o"," ","n","o","w",".">>

\* passive sentences
TextPassive ==
  <<"T","h","e"," ","b","a","l","l"," ","w","a","s"," ","k","i","c","k","e",
    "d","."," ","I","t"," ","w","i","l","l"," ","b","e"," ","m","o","v","e",
    "d"," ","b","y"," ","2"," ","p",".","m","."," ","t","o","d","a","y","!",
    " ","W","e"," ","l","i","k","e"," ","i","t",".">>

\* a text that holds the placeholder and the split marker themselves
TextPlaceholder ==
  <<"S","e","e"," ","{","{","A","B","B","R","}","}"," ","N","e","x","t","|",
    "S","P","L","I","T","|","o","n","e"," ","{","{","D","E","C","}","}"," ",
    "t","w","o",".">>

\* no letter at all
TextDigits ==
  <<"1","."," ","2","!"," ","3",".","5","?"," ","(","4",")">>

\* white space only
TextBlank ==
  <<" ","\t","\n"," ">>

\* tokens without a letter among the words
TextMixedTokens ==
  <<"W","e"," ","s","a","w"," ","3"," ","-"," ","4"," ","%"," ","o","f"," ",
    "1","2"," ","c","a","s","e","s"," ","."," ","O","k">>

\* nothing but placeholders
TextOnlyPlaceholders ==
  <<"{","{","D","E","C","}","}"," ","{","{","A","B","B","R","}","}">>

\* 12 words, 3 sentences, 16 syllables: the score is 89.975
TextBandEdge ==
  <<"T","h","e"," ","h","a","p","p","y"," ","c","a","t"," ","s","a","t",".",
    " ","A"," ","r","a","b","b","i","t"," ","r","a","n"," ","i","n"," ","t",
    "h","e"," ","g","a","r","d","e","n","."," ","S","t","o","p"," ","r","u",
    "n","n","i","n","g",".">>

SampleTexts == {TextBandEdge, TextOnlyPlaceholders, TextDrSmith, TextCatMat, TextSimple, TextAbbreviations, TextNumbers,
                TextRunOn, TextQuoted, TextDiagnostics, TextGo, TextDomains,
                TextPassive, TextPlaceholder, TextDigits, TextBlank, TextMixedTokens}

ShortWord == <<"a">>
LongWord == <<"b","a","n","a","n","a">>

\* n times: a space and the word
RECURSIVE MoreWords(_, _)
MoreWords(word, n) == IF n <= 0 THEN <<>> ELSE <<" ">> \o word \o MoreWords(word, n - 1)

\* a sentence of n words
SentenceOf(word, n) == <<"A">> \o word \o MoreWords(word, n - 1) \o <<".">>

\* the number of words of the k-th sentence of a built text
WordsInSentence(shape, k) ==
  CASE shape = "over" -> LONG_SENTENCE_THRESHOLD + 1
    [] shape = "at" -> LONG_SENTENCE_THRESHOLD
    [] shape = "mixed" -> IF k % 3 = 0 THEN 3 ELSE LONG_SENTENCE_THRESHOLD + 1

\* a text of n sentences
RECURSIVE BuiltFrom(_, _, _, _)
BuiltFrom(word, shape, k, n) ==
  IF k > n THEN <<>>
  ELSE (IF k > 1 THEN <<" ">> ELSE <<>>)
       \o SentenceOf(word, WordsInSentence(shape, k))
       \o BuiltFrom(word, shape, k + 1, n)

Shapes == {"over", "at", "mixed"}

BuiltTexts ==
  {BuiltFrom(ShortWord, shape, 1, n) : shape \in Shapes, n \in 1..MaxSentences}
    \cup {BuiltFrom(LongWord, shape, 1, n) : shape \in Shapes, n \in 1..2}

ReadInputs == StringsUpTo(ReadAlphabet, MaxTextLen) \cup SampleTexts \cup BuiltTexts

InitRead ==
  /\ text \in ReadInputs
  /\ report = NoReport
  /\ pcRead = "start"
  /\ DiffIdle /\ CallIdle /\ ConcIdle /\ EvalIdle /\ CacheIdle /\ RewriteIdle /\ MapIdle /\ PapersIdle /\ RestructureIdle

\* the call: lines 98-182
Analyze ==
  /\ pcRead = "start"
  /\ report' = analyzeReadability(text)
  /\ pcRead' = "done"
  /\ UNCHANGED <<text, diffVars, callVars, concVars, evalVars, cacheVars, rewriteVars, mapVars, paperVars, restructureVars>>

NextRead == Analyze

ReadSpec == InitRead /\ [][NextRead]_vars

ReadDone == pcRead = "done"


\* the words and sentences the score is computed from
WordCount == report.totalWords
SentenceCount == report.totalSentences
SyllableCount == SyllablesIn(WordsOf(text), 1, Len(WordsOf(text)))

\* C5: a text that yields no sentence with an alphabetic character (a text without any
\* letter in particular) gets the zeroed report, graded "Unable to analyze"
C5_ZeroedReport ==
  (ReadDone /\ (~HasAlpha(text)
                \/ \A k \in 1..Len(sentencePieces(text)) : ~HasAlpha(sentencePieces(text)[k])))
    => report = [fleschScore |-> 0, fleschGrade |-> "Unable to analyze",
                 avgSentenceLength |-> 0, avgWordLength |-> 0, passiveVoicePercent |-> 0,
                 longSentences |-> <<>>, totalSentences |-> 0, totalWords |-> 0]

C5_Witness ==
  /\ ReadDone
  /\ ~HasAlpha(text)
  /\ \E k \in 1..Len(text) : text[k] \in Digit
  /\ \E k \in 1..Len(text) : text[k] \in Terminators
  /\ report.fleschGrade = "Unable to analyze"

\* C6: the reported score lies in [0, 100] (0..1000 tenths)
C6_ScoreInRange == ReadDone => (report.fleschScore >= 0 /\ report.fleschScore <= 1000)

\* the raw score of a run-on text is negative and the reported one is 0
C6_Witness ==
  /\ ReadDone
  /\ SentenceCount = 1
  /\ WordCount > LONG_SENTENCE_THRESHOLD
  /\ RawFleschNum(WordCount, SentenceCount, SyllableCount) < 0
  /\ report.fleschScore = 0

\* the number of whitespace-delimited tokens of t that hold an alphabetic character
AlphaTokenCount(t) ==
  Cardinality({p \in 1..Len(t) :
                 /\ t[p] \notin WhiteSpace
                 /\ p = 1 \/ t[p - 1] \in WhiteSpace
                 /\ \E q \in p..(FirstAt({x \in p..Len(t) : t[x] \in WhiteSpace}, Len(t)) - 1) :
                      t[q] \in Alpha})

\* C7: with at least one sentence, totalWords counts the whitespace-delimited tokens
\* with an alphabetic character, and the reported score r (in tenths) is
\* 206.835 - 1.015 W/S - 84.6 Y/W clamped to [0, 100] and rounded to one decimal:
\* r - 1/2 <= 10 c < r + 1/2, with c the clamped score. Everything is multiplied by the
\* common denominator 200 S W (206.835 = 41367/200, 1.015 = 203/200, 84.6 = 16920/200).
C7_FleschFormula ==
  (ReadDone /\ SentenceCount >= 1) =>
    LET W == WordCount
        S == SentenceCount
        Y == SyllableCount
        D == 200 * S * W
        raw == 41367 * S * W - 203 * W * W - 16920 * Y * S
        c == IF raw < 0 THEN 0 ELSE IF raw > 100 * D THEN 100 * D ELSE raw
        r == report.fleschScore
    IN /\ W = AlphaTokenCount(text)
       /\ W >= 1
       /\ (2 * r - 1) * D <= 20 * c
       /\ 20 * c < (2 * r + 1) * D

\* several sentences, a token without a letter, a score that is neither clamped nor whole
C7_Witness ==
  /\ ReadDone
  /\ SentenceCount >= 2
  /\ WordCount < countWords(text)
  /\ report.fleschScore > 0 /\ report.fleschScore < 1000
  /\ report.fleschScore % 10 # 0

\* C8: at most 5 long sentences are reported, each of more than 25 words
C8_LongSentences ==
  ReadDone =>
    /\ Len(report.longSentences) <= 5
    /\ \A k \in 1..Len(report.longSentences) : report.longSentences[k].wordCount > 25

\* the text has more than 5 sentences of more than 25 words
C8_Witness ==
  /\ ReadDone
  /\ Len(report.longSentences) = 5
  /\ Len(SelectSeq(splitIntoSentences(text), LAMBDA x : countWords(x) > 25)) > 5

\* C9: "Dr. Smith arrived. The results were significant." has 2 sentences, cut after
\* "arrived." and not after "Dr."
C9_DrSmith ==
  (ReadDone /\ text = TextDrSmith) =>
    /\ report.totalSentences = 2
    /\ splitIntoSentences(text) =
         << <<"D","r","."," ","S","m","i","t","h"," ","a","r","r","i","v","e","d",".">>,
            <<"T","h","e"," ","r","e","s","u","l","t","s"," ","w","e","r","e"," ","s",
            "i","g","n","i","f","i","c","a","n","t",".">> >>

C9_Witness == ReadDone /\ text = TextDrSmith /\ report.totalSentences > 0

(***************************************************************************)
(* Calls of the two functions, one after the other, by the request         *)
(* handlers of the server                                                  *)
(***************************************************************************)
MaxBetween == 2

CallTexts == {TextDrSmith, TextCatMat, TextGo, TextDigits, TextPassive, <<>>}

CallPairs ==
  {<<ExampleOriginal, ExampleSuggested>>, <<ExampleSuggested, ExampleOriginal>>,
   <<ExampleOriginal, ExampleOriginal>>, <<ExampleOriginal, <<>> >>,
   << <<>>, <<>> >>, << <<"a"," ","b">>, <<"b"," ","a">> >>}

Init == DiffIdle /\ ReadIdle /\ CallIdle /\ ConcIdle /\ EvalIdle /\ CacheIdle /\ RewriteIdle /\ MapIdle /\ PapersIdle /\ RestructureIdle

\* the log after a call: the call before it is kept, or the one kept already stays
Logged(call) ==
  /\ lastCall' = call
  /\ \/ keptCall' = lastCall /\ sinceKept' = 0
     \/ keptCall' = keptCall /\ sinceKept' = Min(sinceKept + 1, MaxBetween)

\* a handler calls analyzeReadability(t)
AnalyzeRequest ==
  /\ \E t \in CallTexts :
       Logged([fn |-> "analyzeReadability", input |-> <<t>>,
               output |-> analyzeReadability(t)])
  /\ UNCHANGED <<diffVars, readVars, concVars, evalVars, cacheVars, rewriteVars, mapVars, paperVars, restructureVars>>

\* a handler calls computeWordDiff(pair[1], pair[2])
DiffRequest ==
  /\ \E pair \in CallPairs :
       Logged([fn |-> "computeWordDiff", input |-> pair,
               output |-> computeWordDiff(pair[1], pair[2])])
  /\ UNCHANGED <<diffVars, readVars, concVars, evalVars, cacheVars, rewriteVars, mapVars, paperVars, restructureVars>>

Next == AnalyzeRequest \/ DiffRequest

Spec == Init /\ [][Next]_vars

SameCall == keptCall.fn = lastCall.fn /\ keptCall.input = lastCall.input

TextGoUp == <<"G","o","."," ","U","p",".">>

ConcTexts == {TextGoUp, TextGo, TextDigits}

ConcPairs ==
  {<< <<"a"," ","b">>, <<"b"," ","a">> >>, << <<"a">>, <<"a"," ","b">> >>,
   << <<"b"," ","b">>, <<>> >>}

\* mutation: the locals live in one module-level object
FrameShared(r) == 1

\* the locals of the invocation made by request r: allocated by the call
Frame(r) == r

Running(r) == inflight[r].pc \notin {"idle", "done"}

\* request r starts an invocation while the requests in others are in progress
Started(r, fn, input, others) ==
  [q \in Requests |->
     IF q = r THEN [pc |-> "called", fn |-> fn, input |-> input, result |-> <<>>,
                    overlapped |-> others # {}]
     ELSE IF q \in others THEN [inflight[q] EXCEPT !.overlapped = TRUE]
     ELSE inflight[q]]

Returned(r, result) == [inflight EXCEPT ![r].pc = "done", ![r].result = result]

\* routes.ts:1126: the handler of request r calls computeWordDiff
ConcCallDiff(r) ==
  /\ inflight[r].pc = "idle"
  /\ \E pair \in ConcPairs :
       /\ frames' = [frames EXCEPT
            ![Frame(r)] = [NoFrame EXCEPT !.original = pair[1], !.suggested = pair[2]]]
       /\ inflight' = Started(r, "computeWordDiff", pair, {q \in Requests : Running(q)})
  /\ UNCHANGED <<diffVars, readVars, callVars, evalVars, cacheVars, rewriteVars, mapVars, paperVars, restructureVars>>

\* lines 93-113
ConcDiffTokenize(r) ==
  /\ inflight[r].pc = "called" /\ inflight[r].fn = "computeWordDiff"
  /\ LET f == frames[Frame(r)]
         A == SplitKeep(f.original)
         B == SplitKeep(f.suggested)
     IN frames' = [frames EXCEPT ![Frame(r)] =
          [f EXCEPT !.originalWords = A, !.suggestedWords = B, !.dp = DpTable(A, B),
                    !.i = Len(A), !.j = Len(B), !.ops = <<>>]]
  /\ inflight' = [inflight EXCEPT ![r].pc = "backtrack"]
  /\ UNCHANGED <<diffVars, readVars, callVars, evalVars, cacheVars, rewriteVars, mapVars, paperVars, restructureVars>>

\* lines 115-126: one iteration of the backtracking loop
ConcDiffBacktrack(r) ==
  /\ inflight[r].pc = "backtrack"
  /\ LET f == frames[Frame(r)]
         kind == BacktrackOp(f.originalWords, f.suggestedWords, f.dp, f.i, f.j)
     IN /\ f.i > 0 \/ f.j > 0
        /\ frames' = [frames EXCEPT ![Frame(r)] =
             [f EXCEPT !.ops = <<OpOf(f.originalWords, f.suggestedWords, kind, f.i, f.j)>> \o f.ops,
                       !.i = IF kind = "added" THEN f.i ELSE f.i - 1,
                       !.j = IF kind = "removed" THEN f.j ELSE f.j - 1]]
  /\ UNCHANGED <<diffVars, readVars, callVars, evalVars, inflight, cacheVars, rewriteVars, mapVars, paperVars, restructureVars>>

\* lines 128-136
ConcDiffReturn(r) ==
  /\ inflight[r].pc = "backtrack"
  /\ LET f == frames[Frame(r)]
     IN /\ ~(f.i > 0 \/ f.j > 0)
        /\ inflight' = Returned(r, Coalesce(f.ops))
  /\ UNCHANGED <<diffVars, readVars, callVars, evalVars, frames, cacheVars, rewriteVars, mapVars, paperVars, restructureVars>>

\* routes.ts:593: the handler of request r calls analyzeReadability
ConcCallAnalyze(r) ==
  /\ inflight[r].pc = "idle"
  /\ \E t \in ConcTexts :
       /\ frames' = [frames EXCEPT ![Frame(r)] = [NoFrame EXCEPT !.text = t]]
       /\ inflight' = Started(r, "analyzeReadability", t, {q \in Requests : Running(q)})
  /\ UNCHANGED <<diffVars, readVars, callVars, evalVars, cacheVars, rewriteVars, mapVars, paperVars, restructureVars>>

\* readability.ts:99
ConcReadSplit(r) ==
  /\ inflight[r].pc = "called" /\ inflight[r].fn = "analyzeReadability"
  /\ frames' = [frames EXCEPT ![Frame(r)].sentences = splitIntoSentences(frames[Frame(r)].text)]
  /\ inflight' = [inflight EXCEPT ![r].pc = "split"]
  /\ UNCHANGED <<diffVars, readVars, callVars, evalVars, cacheVars, rewriteVars, mapVars, paperVars, restructureVars>>

\* readability.ts:100-181
ConcReadReturn(r) ==
  /\ inflight[r].pc = "split"
  /\ inflight' = Returned(r, ReportFrom(frames[Frame(r)].text, frames[Frame(r)].sentences))
  /\ UNCHANGED <<diffVars, readVars, callVars, evalVars, frames, cacheVars, rewriteVars, mapVars, paperVars, restructureVars>>

NextConc ==
  \E r \in Requests :
    \/ ConcCallDiff(r)
    \/ ConcDiffTokenize(r)
    \/ ConcDiffBacktrack(r)
    \/ ConcDiffReturn(r)
    \/ ConcCallAnalyze(r)
    \/ ConcReadSplit(r)
    \/ ConcReadReturn(r)

InitConc == DiffIdle /\ ReadIdle /\ CallIdle /\ ConcIdle /\ EvalIdle /\ CacheIdle /\ RewriteIdle /\ MapIdle /\ PapersIdle /\ RestructureIdle

ConcSpec == InitConc /\ [][NextConc]_vars

\* the result of the call of request r when it runs alone
AloneResult(r) ==
  IF inflight[r].fn = "computeWordDiff"
    THEN computeWordDiff(inflight[r].input[1], inflight[r].input[2])
    ELSE analyzeReadability(inflight[r].input)

\* C11: whatever the interleaving of the invocations in flight, each returns the result
\* it returns when it runs alone
C11_Isolation ==
  \A r \in Requests : inflight[r].pc = "done" => inflight[r].result = AloneResult(r)

\* two invocations of different functions overlapped and both have returned
C11_Witness ==
  \E r, q \in Requests :
    /\ inflight[r].pc = "done" /\ inflight[q].pc = "done"
    /\ inflight[r].overlapped /\ inflight[q].overlapped
    /\ inflight[r].fn = "computeWordDiff" /\ inflight[q].fn = "analyzeReadability"
    /\ Len(inflight[r].result) >= 2
    /\ inflight[q].result.totalSentences = 2


\* value v, in units of 1/scale, is num/den rounded to the nearest 1/scale
RoundedTo(v, scale, num, den) ==
  /\ (2 * v - 1) * den <= 2 * scale * num
  /\ 2 * scale * num < (2 * v + 1) * den

\* the integer outputs of a report
IntegerOutputs ==
  /\ report.passiveVoicePercent \in 0..100
  /\ report.totalSentences \in Nat /\ report.totalWords \in Nat
  /\ \A k \in 1..Len(report.longSentences) : report.longSentences[k].wordCount \in Nat

\* C12 as stated: fleschScore, avgSentenceLength and avgWordLength are rounded to 1
\* decimal place (avgWordLength, kept in hundredths, is a whole number of tenths that
\* is the average rounded to tenths); the other numbers are integers
C12_AsStated ==
  (ReadDone /\ SentenceCount >= 1) =>
    /\ report.fleschScore \in 0..1000
    /\ RoundedTo(report.avgSentenceLength, 10, WordCount, SentenceCount)
    /\ report.avgWordLength % 10 = 0
    /\ RoundedTo(report.avgWordLength \div 10, 10, SyllableCount, WordCount)
    /\ IntegerOutputs

\* C12: fleschScore and avgSentenceLength are rounded to 1 decimal place and
\* avgWordLength (syllables per word) to 2 decimal places; passiveVoicePercent,
\* totalSentences, totalWords and each wordCount are integers
C12_Rounding ==
  (ReadDone /\ SentenceCount >= 1) =>
    /\ report.fleschScore \in 0..1000
    /\ RoundedTo(report.avgSentenceLength, 10, WordCount, SentenceCount)
    /\ RoundedTo(report.avgWordLength, 100, SyllableCount, WordCount)
    /\ IntegerOutputs

\* no average is a whole number, and avgWordLength needs its second decimal
C12_Witness ==
  /\ ReadDone
  /\ report.avgSentenceLength % 10 # 0
  /\ report.avgWordLength % 10 # 0
  /\ report.fleschScore % 10 # 0
  /\ report.passiveVoicePercent \notin {0, 100}


(***************************************************************************)
(* One invocation of evaluateText or evaluateFigure: the retry loop around *)
(* the call of the AI service, then the scoring of the response            *)
(***************************************************************************)
SectionTypes ==
  {"title", "abstract", "introduction",
   "literature_review", "methodology", "results",
   "discussion", "conclusion", "conclusion_with_limits",
   "conclusion_without_limits", "limitations_future_research", "paragraph",
   "figure_introduction", "figure_theory", "figure_methodology",
   "figure_results_quantitative", "figure_results_qualitative", "figure_discussion"}

\* the weights of the criteria of section type t, in the order of sectionCriteria[t]
sectionCriteria(t) ==
  CASE t = "title" -> <<30, 30, 25, 15>>
    [] t = "abstract" -> <<18, 18, 22, 17, 10, 8, 7>>
    [] t = "introduction" -> <<12, 12, 12, 12, 8, 12, 8, 5, 10, 9>>
    [] t = "literature_review" -> <<16, 16, 12, 12, 12, 12, 10, 10>>
    [] t = "methodology" -> <<16, 16, 16, 12, 12, 8, 10, 10>>
    [] t = "results" -> <<20, 12, 16, 12, 12, 8, 10, 10>>
    [] t = "discussion" -> <<20, 20, 16, 12, 12, 10, 10>>
    [] t = "conclusion" -> <<16, 16, 12, 12, 12, 4, 8, 10, 10>>
    [] t = "conclusion_with_limits" -> <<14, 14, 14, 14, 12, 4, 8, 10, 10>>
    [] t = "conclusion_without_limits" -> <<22, 22, 16, 8, 12, 10, 10>>
    [] t = "limitations_future_research" -> <<20, 15, 20, 15, 10, 10, 10>>
    [] t = "paragraph" -> <<30, 30, 20, 20>>
    [] t = "figure_introduction" -> <<25, 25, 25, 25>>
    [] t = "figure_theory" -> <<25, 25, 25, 25>>
    [] t = "figure_methodology" -> <<25, 25, 25, 25>>
    [] t = "figure_results_quantitative" -> <<25, 25, 25, 25>>
    [] t = "figure_results_qualitative" -> <<25, 25, 25, 25>>
    [] t = "figure_discussion" -> <<25, 25, 25, 25>>

\* the values a criterion's score takes in a response (numbers in tenths): no score
\* (undefined or null), a value that Math.round turns into NaN (a string such as "high",
\* an object), and numbers below, inside, at a half and above the scale
MaxEntries == 2
Absent == [kind |-> "absent", v |-> 0]
NotANumber == [kind |-> "nan", v |-> 0]
Number(v) == [kind |-> "number", v |-> v]
ScoreValues == {Absent, NotANumber, Number(-20), Number(75), Number(120)}

\* an entry of the response's criteria: the criterion its name matches (0: none) and
\* its score
Entries == [names : {0, 2}, score : ScoreValues]
JsonContent(criteria) == [kind |-> "json", criteria |-> criteria]
MalformedContent == [kind |-> "malformed", criteria |-> <<>>]
Contents ==
  {JsonContent(c) : c \in UNION {[1..n -> Entries] : n \in 0..MaxEntries}}
    \cup {MalformedContent, EmptyContent}

\* mutation: the loop does not break
TruthyNever(c) == FALSE

\* routes.ts:357 and 527: if (content)
Truthy(c) == c.kind # "empty"

\* routes.ts:382-388 and 547-549: the entry found for criterion k (1-based), by name
\* first, then by position; Absent stands for undefined
aiCriterion(criteria, k) ==
  LET named == {n \in 1..Len(criteria) : criteria[n].names = k}
  IN IF named # {} THEN criteria[MinOf(named)].score
     ELSE IF k <= Len(criteria) THEN criteria[k].score
     ELSE Absent

\* Math.max(1, Math.min(10, Math.round(aiCriterion?.score ?? 5)))
ClampScore(x) ==
  CASE x.kind = "absent" -> Num(5)
    [] x.kind = "nan" -> NaN
    [] x.kind = "number" -> Num(Max(1, Min(10, RoundDiv(x.v, 10))))

\* routes.ts:378-399 and 546-560
ScoresOf(t, criteria) ==
  [k \in 1..Len(sectionCriteria(t)) |->
     [weight |-> sectionCriteria(t)[k], score |-> ClampScore(aiCriterion(criteria, k))]]

RECURSIVE WeightedSum(_, _)
WeightedSum(scores, k) ==
  IF k > Len(scores) THEN 0
  ELSE scores[k].score.v * scores[k].weight + WeightedSum(scores, k + 1)

\* routes.ts:401-404, 433 and 562-565, 568: the sum of score * weight / 100, rounded to one decimal
\* (in tenths); NaN when a score is NaN
OverallOf(scores) ==
  IF \E k \in 1..Len(scores) : scores[k].score.nan THEN NaN
  ELSE Num(RoundDiv(WeightedSum(scores, 1), 10))

EmptyError(n) == [kind |-> "Empty response from AI", attempt |-> n]
ThrownError(n) == [kind |-> "thrown by the AI call", attempt |-> n]

InitEval ==
  /\ sectionType \in SectionTypes
  /\ attempt = 1 /\ content = EmptyContent /\ lastError = NoError
  /\ aiCalls = <<>> /\ delays = <<>> /\ criteriaScores = <<>> /\ overallScore = Num(0)
  /\ outcome = NoOutcome /\ pcEval = "loop"
  /\ DiffIdle /\ ReadIdle /\ CallIdle /\ ConcIdle /\ CacheIdle /\ RewriteIdle /\ MapIdle /\ PapersIdle /\ RestructureIdle

\* routes.ts:345-359 and 509-529: the call returns, with or without content
AiResponds ==
  /\ pcEval = "loop" /\ attempt <= 3
  /\ \E c \in Contents :
       /\ content' = c
       /\ aiCalls' = Append(aiCalls, c.kind)
       /\ IF Truthy(c)
            THEN pcEval' = "after" /\ UNCHANGED <<attempt, lastError, delays, cacheVars, rewriteVars, mapVars, paperVars, restructureVars>>
            ELSE /\ lastError' = EmptyError(attempt)
                 /\ attempt' = attempt + 1
                 /\ delays' = Append(delays, 0)
                 /\ pcEval' = "loop"
  /\ UNCHANGED <<sectionType, criteriaScores, overallScore, outcome,
                 diffVars, readVars, callVars, concVars, cacheVars, rewriteVars, mapVars, paperVars, restructureVars>>

\* routes.ts:360-364 and 530-534: the call throws; wait 1000 ms * attempt before the next attempt
AiThrows ==
  /\ pcEval = "loop" /\ attempt <= 3
  /\ lastError' = ThrownError(attempt)
  /\ aiCalls' = Append(aiCalls, "error")
  /\ delays' = Append(delays, IF attempt < 3 THEN 1000 * attempt ELSE 0)
  /\ attempt' = attempt + 1
  /\ UNCHANGED <<sectionType, content, criteriaScores, overallScore, outcome, pcEval,
                 diffVars, readVars, callVars, concVars, cacheVars, rewriteVars, mapVars, paperVars, restructureVars>>

\* routes.ts:344 and 508: the loop ends after the third attempt
LoopEnds ==
  /\ pcEval = "loop" /\ attempt > 3
  /\ pcEval' = "after"
  /\ UNCHANGED <<sectionType, attempt, content, lastError, aiCalls, delays,
                 criteriaScores, overallScore, outcome,
                 diffVars, readVars, callVars, concVars, cacheVars, rewriteVars, mapVars, paperVars, restructureVars>>

\* routes.ts:367-369 and 537-539
EvalThrows ==
  /\ pcEval = "after" /\ ~Truthy(content)
  /\ outcome' = [kind |-> "thrown",
                 error |-> IF lastError # NoError THEN lastError
                           ELSE [kind |-> "No response from AI after 3 attempts",
                                 attempt |-> 0]]
  /\ pcEval' = "done"
  /\ UNCHANGED <<sectionType, attempt, content, lastError, aiCalls, delays,
                 criteriaScores, overallScore, diffVars, readVars, callVars, concVars, cacheVars, rewriteVars, mapVars, paperVars, restructureVars>>

\* routes.ts:371, 382 and 541, 547: JSON.parse or the access to the criteria throws
ParseThrows ==
  /\ pcEval = "after" /\ content.kind = "malformed"
  /\ outcome' = [kind |-> "thrown", error |-> [kind |-> "SyntaxError or TypeError",
                                               attempt |-> 0]]
  /\ pcEval' = "done"
  /\ UNCHANGED <<sectionType, attempt, content, lastError, aiCalls, delays,
                 criteriaScores, overallScore, diffVars, readVars, callVars, concVars, cacheVars, rewriteVars, mapVars, paperVars, restructureVars>>

\* routes.ts:371-439 and 541-572: score the criteria and return
EvalReturns ==
  /\ pcEval = "after" /\ content.kind = "json"
  /\ criteriaScores' = ScoresOf(sectionType, content.criteria)
  /\ overallScore' = OverallOf(criteriaScores')
  /\ outcome' = [kind |-> "returned", error |-> NoError]
  /\ pcEval' = "done"
  /\ UNCHANGED <<sectionType, attempt, content, lastError, aiCalls, delays,
                 diffVars, readVars, callVars, concVars, cacheVars, rewriteVars, mapVars, paperVars, restructureVars>>

NextEval ==
  \/ AiResponds
  \/ AiThrows
  \/ LoopEnds
  \/ EvalThrows
  \/ ParseThrows
  \/ EvalReturns

EvalSpec == InitEval /\ [][NextEval]_vars

EvalReturned == pcEval = "done" /\ outcome.kind = "returned"

RECURSIVE SumOf(_, _)
SumOf(seq, k) == IF k > Len(seq) THEN 0 ELSE seq[k] + SumOf(seq, k + 1)

\* C13 as stated: a returned overallScore lies in [1, 10] (10..100 tenths), every
\* criterion score is an integer in 1..10, 5 when the response has no score for the
\* criterion, and the weights of every section type sum to 100
C13_AsStated ==
  /\ \A t \in SectionTypes : SumOf(sectionCriteria(t), 1) = 100
  /\ EvalReturned =>
       /\ ~overallScore.nan /\ overallScore.v >= 10 /\ overallScore.v <= 100
       /\ \A k \in 1..Len(criteriaScores) :
            /\ ~criteriaScores[k].score.nan
            /\ criteriaScores[k].score.v \in 1..10
            /\ aiCriterion(content.criteria, k) = Absent => criteriaScores[k].score.v = 5

AllScoresNumeric ==
  \A n \in 1..Len(content.criteria) : content.criteria[n].score.kind # "nan"

\* the same for the responses whose scores are numbers or missing
C13_WhenNumeric ==
  (EvalReturned /\ AllScoresNumeric) =>
       /\ ~overallScore.nan /\ overallScore.v >= 10 /\ overallScore.v <= 100
       /\ \A k \in 1..Len(criteriaScores) : criteriaScores[k].score.v \in 1..10


\* the length of a longest common subsequence of the first m tokens of A and the
\* first n tokens of B, by its definition
RECURSIVE LcsLength(_, _, _, _)
LcsLength(A, B, m, n) ==
  IF m = 0 \/ n = 0 THEN 0
  ELSE IF A[m] = B[n] THEN 1 + LcsLength(A, B, m - 1, n - 1)
  ELSE Max(LcsLength(A, B, m - 1, n), LcsLength(A, B, m, n - 1))

\* sub[k..] is a subsequence of seq[n..]
RECURSIVE IsSubsequenceFrom(_, _, _, _)
IsSubsequenceFrom(sub, seq, k, n) ==
  IF k > Len(sub) THEN TRUE
  ELSE IF n > Len(seq) THEN FALSE
  ELSE IF sub[k] = seq[n] THEN IsSubsequenceFrom(sub, seq, k + 1, n + 1)
  ELSE IsSubsequenceFrom(sub, seq, k, n + 1)

\* the tokens emitted as equal, in the order of the edit script
EqualTokens ==
  LET kept == SelectSeq(ops, LAMBDA op : op.type = "equal")
  IN [k \in 1..Len(kept) |-> kept[k].text]

\* C14: the tokens emitted as equal are as many as a longest common subsequence of the
\* two token sequences has, and they are a subsequence of both, in the same order
C14_LcsAlignment ==
  DiffDone =>
    /\ Len(EqualTokens) =
         LcsLength(originalWords, suggestedWords, Len(originalWords), Len(suggestedWords))
    /\ IsSubsequenceFrom(EqualTokens, originalWords, 1, 1)
    /\ IsSubsequenceFrom(EqualTokens, suggestedWords, 1, 1)

\* a common subsequence of 2 tokens or more that is shorter than both inputs
C14_Witness ==
  /\ DiffDone
  /\ Len(EqualTokens) >= 2
  /\ \A k \in 1..Len(EqualTokens) : EqualTokens[k] # <<>>
  /\ Len(EqualTokens) < Len(originalWords) /\ Len(EqualTokens) < Len(suggestedWords)
  /\ \E k \in 1..Len(ops) : ops[k].type = "removed"
  /\ \E k \in 1..Len(ops) : ops[k].type = "added"

\* the current tokens differ and the two predecessor cells hold the same score
TieAt(r, c) ==
  /\ r > 0 /\ c > 0 /\ r <= Len(originalWords) /\ c <= Len(suggestedWords)
  /\ originalWords[r] # suggestedWords[c]
  /\ DpAt(dp, r, c - 1) = DpAt(dp, r - 1, c)

\* C15: a backtracking step taken at a tie consumes a token of the modified sequence
\* and emits it as added
C15_TieBreak ==
  [][(pcDiff = "backtrack" /\ TieAt(i, j)) =>
       /\ i' = i /\ j' = j - 1
       /\ ops' = <<[type |-> "added", text |-> suggestedWords[j]]>> \o ops]_vars

\* the step that led here was taken at a tie
C15_Witness ==
  /\ pcDiff = "backtrack"
  /\ TieAt(i, j + 1)
  /\ ops # <<>> /\ ops[1] = [type |-> "added", text |-> suggestedWords[j + 1]]
  /\ Len(ops) = Len(suggestedWords) - j


\* C16: no two adjacent segments of a returned list have the same type
C16_Coalesced ==
  DiffDone => \A k \in 1..(Len(segments) - 1) : segments[k].type # segments[k + 1].type

\* several ops of one type were merged
C16_Witness ==
  /\ DiffDone
  /\ Len(segments) >= 2
  /\ Len(ops) >= Len(segments) + 2
  /\ \E k \in 1..(Len(ops) - 1) : ops[k].type = "added" /\ ops[k + 1].type = "added"

\* the sentences of the analysed text and the positions of those of more than 25 words
Sentences == splitIntoSentences(text)
OverThreshold == {k \in 1..Len(Sentences) : countWords(Sentences[k]) > 25}

\* C17: longSentences lists, in order of appearance, the first sentences (5 at most) of
\* more than 25 words: each position is the 1-based index of such a sentence, with its
\* word count, positions increase strictly, and no such sentence before a listed one
\* is missing
C17_FirstInOrder ==
  ReadDone =>
    LET list == report.longSentences
        sents == Sentences
        counts == [k \in 1..Len(sents) |-> countWords(sents[k])]
        over == {k \in 1..Len(sents) : counts[k] > 25}
    IN /\ Len(list) = Min(5, Cardinality(over))
       /\ \A n \in 1..Len(list) :
            /\ list[n].position \in over
            /\ list[n].wordCount = counts[list[n].position]
            /\ n > 1 => list[n - 1].position < list[n].position
            /\ \A k \in over :
                 k < list[n].position => \E m \in 1..(n - 1) : list[m].position = k

\* short sentences lie between the listed ones and a long one is left out
C17_Witness ==
  /\ ReadDone
  /\ Len(report.longSentences) = 5
  /\ report.longSentences[5].position > 5
  /\ Cardinality(OverThreshold) > 5

\* the first m words, joined by single spaces
RECURSIVE JoinWords(_, _)
JoinWords(words, m) ==
  IF m = 0 THEN <<>>
  ELSE IF m = 1 THEN words[1]
  ELSE JoinWords(words, m - 1) \o <<" ">> \o words[m]

\* C18: the text of an entry is the sentence itself when it has at most 150
\* characters; otherwise it is some of its first whole words, 147 characters at most,
\* followed by "...". No text is longer than 150 characters.
C18_DisplayText ==
  ReadDone =>
    LET sents == Sentences
    IN \A n \in 1..Len(report.longSentences) :
         LET entry == report.longSentences[n]
             sentence == sents[entry.position]
             words == SplitWs(sentence)
         IN /\ Len(entry.text) <= 150
            /\ IF Len(sentence) <= 150 THEN entry.text = sentence
               ELSE \E m \in 0..Len(words) :
                      /\ Len(JoinWords(words, m)) <= 147
                      /\ entry.text = JoinWords(words, m) \o <<".", ".", ".">>

\* one entry is truncated between two words, another is returned whole
C18_Witness ==
  /\ ReadDone
  /\ \E n \in 1..Len(report.longSentences) :
       LET entry == report.longSentences[n]
       IN /\ Len(Sentences[entry.position]) > 150
          /\ Len(entry.text) > 100 /\ Len(entry.text) <= 150
          /\ SubSeq(entry.text, Len(entry.text) - 2, Len(entry.text)) = <<".", ".", ".">>
          /\ entry.text[Len(entry.text) - 3] \in Alpha


\* pat occurs in s
Contains(s, pat) == \E q \in 1..(Len(s) - Len(pat) + 1) : At(s, q, pat)

Markers == {ABBR, DEC, DOM, SPLIT}

\* x is a contiguous span of t without whitespace at its ends
TrimmedSpanOf(x, t) ==
  /\ x # <<>> /\ x[1] \notin WhiteSpace /\ x[Len(x)] \notin WhiteSpace
  /\ Contains(t, x)

\* C19 as stated: for every input, each sentence returned by splitIntoSentences is a
\* trimmed contiguous span of the input and holds no placeholder or split marker that
\* the input does not hold
C19_AsStated ==
  ReadDone =>
    LET sents == Sentences
    IN \A k \in 1..Len(sents) :
         /\ TrimmedSpanOf(sents[k], text)
         /\ \A marker \in Markers : Contains(sents[k], marker) => Contains(text, marker)

\* the same for the inputs that hold none of the placeholders and no split marker
C19_WithoutMarkers ==
  (ReadDone /\ \A marker \in Markers : ~Contains(text, marker)) =>
    LET sents == Sentences
    IN \A k \in 1..Len(sents) :
         /\ TrimmedSpanOf(sents[k], text)
         /\ \A marker \in Markers : ~Contains(sents[k], marker)


\* the calls of the AI service that gave no content: thrown errors and empty responses
Failed(k) == aiCalls[k] \in {"error", "empty"}

\* the error recorded for call k
RecordedError(k) == IF aiCalls[k] = "empty" THEN EmptyError(k) ELSE ThrownError(k)

\* C20: one invocation calls the AI service 3 times at most, makes no call after a
\* call that returned content, and when all 3 calls have failed or returned empty
\* content it throws the error recorded last and returns nothing
C20_FixedRetry ==
  /\ Len(aiCalls) <= 3
  /\ \A k \in 1..(Len(aiCalls) - 1) : Failed(k)
  /\ pcEval \in {"after", "done"} =>
       /\ aiCalls # <<>>
       /\ Failed(Len(aiCalls)) => Len(aiCalls) = 3
  /\ (pcEval = "done" /\ Failed(Len(aiCalls))) =>
       outcome = [kind |-> "thrown", error |-> RecordedError(3)]
  /\ (pcEval = "done" /\ outcome.kind = "returned") => ~Failed(Len(aiCalls))

\* three failed calls, the last one an empty response after a thrown error
C20_Witness ==
  /\ pcEval = "done"
  /\ aiCalls = <<"empty", "error", "empty">>
  /\ outcome = [kind |-> "thrown", error |-> EmptyError(3)]


\* C21 as stated: every failed attempt but the third is followed by a delay of
\* 1000 ms times its number before the retry, and no delay follows the third
C21_AsStated ==
  \A k \in 1..Len(delays) : delays[k] = IF k < 3 THEN 1000 * k ELSE 0

\* the same for the attempts whose call threw; an empty response is followed by no
\* delay
C21_AfterThrown ==
  \A k \in 1..Len(delays) :
    delays[k] = IF aiCalls[k] = "error" /\ k < 3 THEN 1000 * k ELSE 0


\* the band label of a score given in tenths
BandLabel(tenths) ==
  IF tenths >= 900 THEN "Very Easy (5th grade)"
  ELSE IF tenths >= 800 THEN "Easy (6th grade)"
  ELSE IF tenths >= 700 THEN "Fairly Easy (7th grade)"
  ELSE IF tenths >= 600 THEN "Standard (8th-9th grade)"
  ELSE IF tenths >= 500 THEN "Fairly Difficult (10th-12th grade)"
  ELSE IF tenths >= 300 THEN "Difficult (College)"
  ELSE IF tenths >= 100 THEN "Very Difficult (Graduate)"
  ELSE "Extremely Difficult (Professional)"

\* C30 as stated: in a report that is not zeroed, fleschGrade is the band label of the
\* reported fleschScore
C30_AsStated ==
  (ReadDone /\ SentenceCount >= 1) => report.fleschGrade = BandLabel(report.fleschScore)


\* the grade is the band label of the reported score or of the score a tenth below
C30_WithinRounding ==
  (ReadDone /\ SentenceCount >= 1) =>
    report.fleschGrade \in {BandLabel(report.fleschScore), BandLabel(report.fleschScore - 1)}


(***************************************************************************)
(* getWritingExamples (routes.ts 40-59): the five-minute cache of the      *)
(* active writing examples, called by concurrent requests (lines 158, 795) *)
(***************************************************************************)
MaxTicks == 2
\* the clock advances by a millisecond or by half of the time to live
TickSteps == {1, 150000}
\* what the table of writing examples can hold (ids of the active rows); an empty table too
DbLists == {<<>>, <<"a">>}

InitCache ==
  /\ examplesCache = NullCache /\ examplesCacheTime = 0
  /\ clock = 0 /\ ticks = 0
  /\ db \in DbLists
  /\ dbQueries = 0
  /\ cacheCalls = [c \in Callers |-> NoCacheCall]
  /\ DiffIdle /\ ReadIdle /\ CallIdle /\ ConcIdle /\ EvalIdle /\ RewriteIdle /\ MapIdle /\ PapersIdle /\ RestructureIdle

\* mutant: a list that is exactly CACHE_TTL old still counts as fresh
FreshInclusive(now) == examplesCache.set /\ now - examplesCacheTime <= CACHE_TTL
\* line 47: examplesCache && now - examplesCacheTime < CACHE_TTL (an empty array is truthy)
Fresh(now) == examplesCache.set /\ now - examplesCacheTime < CACHE_TTL

\* the age of the cached list at time now, -1 when nothing is cached
AgeAt(now) == IF examplesCache.set THEN now - examplesCacheTime ELSE -1
\* the calls are numbered in the order in which they are made
NextToCall(c) == cacheCalls[c].pc = "idle" /\ \A b \in 1..(c - 1) : cacheCalls[b].pc # "idle"

\* time passes
CacheTick(d) ==
  /\ ticks < MaxTicks
  /\ clock' = clock + d /\ ticks' = ticks + 1
  /\ UNCHANGED <<examplesCache, examplesCacheTime, db, dbQueries, cacheCalls, rewriteVars, mapVars, paperVars, restructureVars>>
  /\ UNCHANGED <<diffVars, readVars, callVars, concVars, evalVars, rewriteVars, mapVars, paperVars, restructureVars>>

\* somebody edits the writing examples
DbChanges(list) ==
  /\ list # db
  /\ db' = list
  /\ UNCHANGED <<examplesCache, examplesCacheTime, clock, ticks, dbQueries, cacheCalls, rewriteVars, mapVars, paperVars, restructureVars>>
  /\ UNCHANGED <<diffVars, readVars, callVars, concVars, evalVars, rewriteVars, mapVars, paperVars, restructureVars>>

\* lines 46-49: the cached list is fresh, return it
CallHit(c) ==
  /\ NextToCall(c)
  /\ Fresh(clock)
  /\ cacheCalls' = [cacheCalls EXCEPT ![c] =
       [@ EXCEPT !.pc = "done", !.now = clock, !.age = AgeAt(clock),
                 !.result = examplesCache.list, !.ok = TRUE]]
  /\ UNCHANGED <<examplesCache, examplesCacheTime, clock, ticks, db, dbQueries, rewriteVars, mapVars, paperVars, restructureVars>>
  /\ UNCHANGED <<diffVars, readVars, callVars, concVars, evalVars, rewriteVars, mapVars, paperVars, restructureVars>>

\* lines 46-52: no fresh list, send the query and wait for it
CallMiss(c) ==
  /\ NextToCall(c)
  /\ ~Fresh(clock)
  /\ dbQueries' = dbQueries + 1
  /\ cacheCalls' = [cacheCalls EXCEPT ![c] =
       [@ EXCEPT !.pc = "querying", !.now = clock, !.age = AgeAt(clock), !.queried = TRUE]]
  /\ UNCHANGED <<examplesCache, examplesCacheTime, clock, ticks, db, rewriteVars, mapVars, paperVars, restructureVars>>
  /\ UNCHANGED <<diffVars, readVars, callVars, concVars, evalVars, rewriteVars, mapVars, paperVars, restructureVars>>

\* line 52: the database runs the select
QueryRuns(c) ==
  /\ cacheCalls[c].pc = "querying"
  /\ cacheCalls' = [cacheCalls EXCEPT ![c] = [@ EXCEPT !.pc = "fetched", !.rows = db]]
  /\ UNCHANGED <<examplesCache, examplesCacheTime, clock, ticks, db, dbQueries, rewriteVars, mapVars, paperVars, restructureVars>>
  /\ UNCHANGED <<diffVars, readVars, callVars, concVars, evalVars, rewriteVars, mapVars, paperVars, restructureVars>>

\* lines 52-54: the await resumes, store the rows under the time read at line 46
QueryResolves(c) ==
  /\ cacheCalls[c].pc = "fetched"
  /\ examplesCache' = Cached(cacheCalls[c].rows)
  /\ examplesCacheTime' = cacheCalls[c].now
  /\ cacheCalls' = [cacheCalls EXCEPT ![c] =
       [@ EXCEPT !.pc = "done", !.result = cacheCalls[c].rows, !.ok = TRUE]]
  /\ UNCHANGED <<clock, ticks, db, dbQueries, rewriteVars, mapVars, paperVars, restructureVars>>
  /\ UNCHANGED <<diffVars, readVars, callVars, concVars, evalVars, rewriteVars, mapVars, paperVars, restructureVars>>

\* lines 55-58: the query fails, return [] and leave the cache alone
QueryFails(c) ==
  /\ cacheCalls[c].pc = "querying"
  /\ cacheCalls' = [cacheCalls EXCEPT ![c] = [@ EXCEPT !.pc = "done", !.result = <<>>]]
  /\ UNCHANGED <<examplesCache, examplesCacheTime, clock, ticks, db, dbQueries, rewriteVars, mapVars, paperVars, restructureVars>>
  /\ UNCHANGED <<diffVars, readVars, callVars, concVars, evalVars, rewriteVars, mapVars, paperVars, restructureVars>>

NextCache ==
  \/ \E d \in TickSteps : CacheTick(d)
  \/ \E list \in DbLists : DbChanges(list)
  \/ \E c \in Callers : CallHit(c)
  \/ \E c \in Callers : CallMiss(c)
  \/ \E c \in Callers : QueryRuns(c)
  \/ \E c \in Callers : QueryResolves(c)
  \/ \E c \in Callers : QueryFails(c)

CacheSpec == InitCache /\ [][NextCache]_vars

\* C24: a call made while a list is cached and less than five minutes old returns it
\* without a database query and leaves the cache and its timestamp unchanged; a call
\* made with no list cached, or one five minutes old or more, queries the database
\* and, when the query succeeds, replaces the cached list and its timestamp.
C24_TtlCache ==
  [][\A c \in Callers :
       /\ (cacheCalls[c].pc = "idle" /\ cacheCalls'[c].pc # "idle") =>
            IF examplesCache.set /\ clock - examplesCacheTime <= CACHE_TTL - 1
            THEN /\ cacheCalls'[c].pc = "done"
                 /\ cacheCalls'[c].result = examplesCache.list
                 /\ dbQueries' = dbQueries
                 /\ UNCHANGED <<examplesCache, examplesCacheTime, rewriteVars, mapVars, paperVars, restructureVars>>
            ELSE /\ cacheCalls'[c].pc = "querying"
                 /\ dbQueries' = dbQueries + 1
       /\ (cacheCalls[c].pc = "fetched" /\ cacheCalls'[c].pc = "done") =>
            /\ examplesCache' = Cached(cacheCalls[c].rows)
            /\ examplesCacheTime' = cacheCalls[c].now
            /\ cacheCalls'[c].result = cacheCalls[c].rows]_vars

\* a call answered from a list that was cached some time before, and a call that found
\* no list, or a list exactly CACHE_TTL old, and stored the rows of its query
C24_Witness ==
  /\ cacheCalls # <<>>
  /\ \E c \in Callers :
       /\ cacheCalls[c].pc = "done" /\ ~cacheCalls[c].queried
       /\ cacheCalls[c].age > 0
  /\ \E c \in Callers :
       /\ cacheCalls[c].pc = "done" /\ cacheCalls[c].queried /\ cacheCalls[c].ok
       /\ cacheCalls[c].age \in {-1, CACHE_TTL}

AllCallsFinished == \A c \in Callers : cacheCalls[c].pc = "done"
Queried == {c \in Callers : cacheCalls[c].queried}
\* the calls are numbered in the order of line 46, and so are their queries
StartedLast(c) == c \in Queried /\ \A o \in Queried : o <= c

\* C27: under any interleaving of concurrent calls the cache timestamp never decreases,
\* and once all calls have finished the cached list is the result of the database
\* query that started last.
C27_AsStated ==
  /\ [][examplesCacheTime' >= examplesCacheTime]_vars
  /\ [](cacheCalls # <<>> /\ AllCallsFinished =>
          \A c \in Callers : StartedLast(c) => examplesCache = Cached(cacheCalls[c].rows))

\* what does hold: the cache always holds the rows and the start time of the query
\* that resolved last
C27_LastResolved ==
  [][\A c \in Callers :
       (cacheCalls[c].pc = "fetched" /\ cacheCalls'[c].pc = "done") =>
          /\ examplesCache' = Cached(cacheCalls[c].rows)
          /\ examplesCacheTime' = cacheCalls[c].now]_vars

(***************************************************************************)
(* POST /api/rewrite (routes.ts 782-1170): up to MAX_RETRIES rewrite       *)
(* attempts, each generated (generateRewrite, 2 tries of the AI call) and  *)
(* scored by evaluateText; the best one, or the original text, is returned *)
(***************************************************************************)
MAX_RETRIES == 3
\* what evaluateText returns as overallScore, in tenths: every criterion score is clamped
\* to 1..10 and the weights sum to 100, so 1.0 to 10.0, or NaN when a criterion score is
\* no number (lines 390, 401-404, 433)
EvalScores == {Num(10), Num(50), Num(70), Num(90), NaN}
OriginalScores == {Undefined, Defined(Num(70))}

\* JavaScript comparisons of numbers: false when either side is NaN
GreaterEq(a, b) == ~a.nan /\ ~b.nan /\ a.v >= b.v
Greater(a, b) == ~a.nan /\ ~b.nan /\ a.v > b.v
Less(a, b) == ~a.nan /\ ~b.nan /\ a.v < b.v
\* line 1087: bestResult.suggestedScore || 0 (0 and NaN are falsy)
OrZero(x) == IF x.nan \/ x.v = 0 THEN Num(0) ELSE x

InitRewrite ==
  /\ originalScore \in OriginalScores
  /\ rewriteAttempt = 1 /\ retryAttempt = 1
  /\ rewriteResult = "none" /\ suggestedScore = Undefined /\ bestResult = NullResult
  /\ attemptLog = <<>> /\ rewriteAiCalls = 0 /\ response = NoResponse
  /\ pcRewrite = "generate"
  /\ DiffIdle /\ ReadIdle /\ CallIdle /\ ConcIdle /\ EvalIdle /\ CacheIdle /\ MapIdle /\ PapersIdle /\ RestructureIdle

\* lines 1163-1168: the handler's catch
ErrorResponse(cause) == [NoResponse EXCEPT !.status = 500, !.cause = cause]

\* generateRewrite, lines 1002-1014: the AI call returns content
GenAiResponds ==
  /\ pcRewrite = "generate" /\ retryAttempt <= 2
  /\ rewriteAiCalls' = rewriteAiCalls + 1
  /\ pcRewrite' = "parse"
  /\ UNCHANGED <<originalScore, rewriteAttempt, retryAttempt, rewriteResult, suggestedScore,
                 bestResult, attemptLog, response, mapVars, paperVars, restructureVars>>
  /\ UNCHANGED <<diffVars, readVars, callVars, concVars, evalVars, cacheVars, mapVars, paperVars, restructureVars>>

\* generateRewrite, lines 1002-1018: the AI call returns no content, or throws
GenAiFails ==
  /\ pcRewrite = "generate" /\ retryAttempt <= 2
  /\ rewriteAiCalls' = rewriteAiCalls + 1
  /\ retryAttempt' = retryAttempt + 1
  /\ UNCHANGED <<originalScore, rewriteAttempt, rewriteResult, suggestedScore, bestResult,
                 attemptLog, response, pcRewrite, mapVars, paperVars, restructureVars>>
  /\ UNCHANGED <<diffVars, readVars, callVars, concVars, evalVars, cacheVars, mapVars, paperVars, restructureVars>>

\* generateRewrite, lines 1021-1023: no content after the two tries; the throw leaves the
\* loop of line 1065 and reaches the catch of line 1163
GenThrows ==
  /\ pcRewrite = "generate" /\ retryAttempt > 2
  /\ response' = ErrorResponse("no content")
  /\ pcRewrite' = "done"
  /\ UNCHANGED <<originalScore, rewriteAttempt, retryAttempt, rewriteResult, suggestedScore,
                 bestResult, attemptLog, rewriteAiCalls, mapVars, paperVars, restructureVars>>
  /\ UNCHANGED <<diffVars, readVars, callVars, concVars, evalVars, cacheVars, mapVars, paperVars, restructureVars>>

\* generateRewrite, lines 1025-1051: the content parses; suggestedText is a new text, or
\* the submitted text (also when the field is missing: parsed_response.suggestedText || text)
GenReturns(kind) ==
  /\ pcRewrite = "parse"
  /\ rewriteResult' = kind
  /\ pcRewrite' = "evaluate"
  /\ UNCHANGED <<originalScore, rewriteAttempt, retryAttempt, suggestedScore, bestResult,
                 attemptLog, rewriteAiCalls, response, mapVars, paperVars, restructureVars>>
  /\ UNCHANGED <<diffVars, readVars, callVars, concVars, evalVars, cacheVars, mapVars, paperVars, restructureVars>>

\* generateRewrite, line 1025: JSON.parse throws
GenParseThrows ==
  /\ pcRewrite = "parse"
  /\ response' = ErrorResponse("parse")
  /\ pcRewrite' = "done"
  /\ UNCHANGED <<originalScore, rewriteAttempt, retryAttempt, rewriteResult, suggestedScore,
                 bestResult, attemptLog, rewriteAiCalls, mapVars, paperVars, restructureVars>>
  /\ UNCHANGED <<diffVars, readVars, callVars, concVars, evalVars, cacheVars, mapVars, paperVars, restructureVars>>

\* line 1071: the rewrite is the submitted text, it is not evaluated
EvaluateSkipped ==
  /\ pcRewrite = "evaluate" /\ rewriteResult = "same"
  /\ suggestedScore' = Undefined
  /\ pcRewrite' = "decide"
  /\ UNCHANGED <<originalScore, rewriteAttempt, retryAttempt, rewriteResult, bestResult,
                 attemptLog, rewriteAiCalls, response, mapVars, paperVars, restructureVars>>
  /\ UNCHANGED <<diffVars, readVars, callVars, concVars, evalVars, cacheVars, mapVars, paperVars, restructureVars>>

\* lines 1071-1075: evaluateText returns after n of its 1..3 AI calls (lines 344-365)
EvaluateReturns(score, n) ==
  /\ pcRewrite = "evaluate" /\ rewriteResult = "new"
  /\ suggestedScore' = Defined(score)
  /\ rewriteAiCalls' = rewriteAiCalls + n
  /\ pcRewrite' = "decide"
  /\ UNCHANGED <<originalScore, rewriteAttempt, retryAttempt, rewriteResult, bestResult,
                 attemptLog, response, mapVars, paperVars, restructureVars>>
  /\ UNCHANGED <<diffVars, readVars, callVars, concVars, evalVars, cacheVars, mapVars, paperVars, restructureVars>>

\* lines 1073, 1076-1078: evaluateText throws after n AI calls, the error is logged
EvaluateThrows(n) ==
  /\ pcRewrite = "evaluate" /\ rewriteResult = "new"
  /\ suggestedScore' = Undefined
  /\ rewriteAiCalls' = rewriteAiCalls + n
  /\ pcRewrite' = "decide"
  /\ UNCHANGED <<originalScore, rewriteAttempt, retryAttempt, rewriteResult, bestResult,
                 attemptLog, response, mapVars, paperVars, restructureVars>>
  /\ UNCHANGED <<diffVars, readVars, callVars, concVars, evalVars, cacheVars, mapVars, paperVars, restructureVars>>

\* line 1082: the rewrite is accepted
Accepted(score) == ~originalScore.def \/ GreaterEq(score, originalScore.val)
\* mutant: every scored rewrite replaces the retained candidate
BetterAlways(score) == TRUE
\* line 1087: the rewrite replaces the retained candidate
Better(score) ==
  ~bestResult.set \/ Greater(score, OrZero(bestResult.suggestedScore.val))
ThisResult == [set |-> TRUE, attempt |-> rewriteAttempt, suggestedScore |-> suggestedScore]

\* lines 1081-1096, 1065: keep or drop the rewrite, then stop or go on
Decide ==
  /\ pcRewrite = "decide"
  /\ attemptLog' = Append(attemptLog, suggestedScore)
  /\ IF suggestedScore.def /\ Accepted(suggestedScore.val)
     THEN /\ bestResult' = ThisResult
          /\ pcRewrite' = "respond"
          /\ UNCHANGED <<rewriteAttempt, retryAttempt, mapVars, paperVars, restructureVars>>
     ELSE /\ bestResult' = IF suggestedScore.def /\ Better(suggestedScore.val)
                           THEN ThisResult ELSE bestResult
          /\ rewriteAttempt' = rewriteAttempt + 1
          /\ retryAttempt' = 1
          /\ pcRewrite' = IF rewriteAttempt + 1 <= MAX_RETRIES THEN "generate" ELSE "respond"
  /\ UNCHANGED <<originalScore, rewriteResult, suggestedScore, rewriteAiCalls, response, mapVars, paperVars, restructureVars>>
  /\ UNCHANGED <<diffVars, readVars, callVars, concVars, evalVars, cacheVars, mapVars, paperVars, restructureVars>>

\* lines 1102-1111, 1114-1123: the submitted text, no changes, the original score
Fallback ==
  [status |-> 200, cause |-> "none", suggestedText |-> "original", attempt |-> 0,
   changes |-> "none", suggestedScore |-> originalScore, noImprovementFound |-> TRUE]

\* lines 1098-1162
Respond ==
  /\ pcRewrite = "respond"
  /\ response' =
       IF ~bestResult.set \/ ~bestResult.suggestedScore.def THEN Fallback
       ELSE IF originalScore.def /\ Less(bestResult.suggestedScore.val, originalScore.val)
       THEN Fallback
       ELSE [status |-> 200, cause |-> "none", suggestedText |-> "rewrite",
             attempt |-> bestResult.attempt, changes |-> "rewrite",
             suggestedScore |-> bestResult.suggestedScore, noImprovementFound |-> FALSE]
  /\ pcRewrite' = "done"
  /\ UNCHANGED <<originalScore, rewriteAttempt, retryAttempt, rewriteResult, suggestedScore,
                 bestResult, attemptLog, rewriteAiCalls, mapVars, paperVars, restructureVars>>
  /\ UNCHANGED <<diffVars, readVars, callVars, concVars, evalVars, cacheVars, mapVars, paperVars, restructureVars>>

NextRewrite ==
  \/ GenAiResponds
  \/ GenAiFails
  \/ GenThrows
  \/ \E kind \in {"new", "same"} : GenReturns(kind)
  \/ GenParseThrows
  \/ EvaluateSkipped
  \/ \E score \in EvalScores, n \in 1..3 : EvaluateReturns(score, n)
  \/ \E n \in 1..3 : EvaluateThrows(n)
  \/ Decide
  \/ Respond

RewriteSpec == InitRewrite /\ [][NextRewrite]_vars

\* an attempt of the log produced a rewrite scoring at least originalScore (any scored
\* rewrite when the request has no originalScore)
Succeeded(k) == attemptLog[k].def /\ Accepted(attemptLog[k].val)
ScoredBelow(k) ==
  attemptLog[k].def /\ originalScore.def /\ Less(attemptLog[k].val, originalScore.val)
Responded == pcRewrite = "done" /\ response.status = 200

\* C22: the response never carries a suggestedScore below originalScore; when no attempt
\* produced a rewrite scoring at least originalScore the response is the submitted text
\* with changes = [], suggestedScore = originalScore and noImprovementFound = true.
C22_AsStated ==
  Responded =>
    /\ (originalScore.def /\ response.suggestedScore.def) =>
          ~Less(response.suggestedScore.val, originalScore.val)
    /\ (\A k \in 1..Len(attemptLog) : ~Succeeded(k)) => response = Fallback

\* what does hold: the same, for requests none of whose evaluations returned NaN
NoNaNScore == \A k \in 1..Len(attemptLog) : ~(attemptLog[k].def /\ attemptLog[k].val.nan)
C22_WhenNumeric ==
  (Responded /\ NoNaNScore) =>
    /\ (originalScore.def /\ response.suggestedScore.def) =>
          GreaterEq(response.suggestedScore.val, originalScore.val)
    /\ (\A k \in 1..Len(attemptLog) : ~Succeeded(k)) => response = Fallback
    /\ (\E k \in 1..Len(attemptLog) : Succeeded(k)) =>
          /\ response.suggestedText = "rewrite" /\ ~response.noImprovementFound
          /\ Succeeded(response.attempt)
          /\ response.suggestedScore = attemptLog[response.attempt]

\* the attempt k of the log was scored at least originalScore (scored at all when the
\* request has no originalScore), stated without the handler's own tests
ReachedOriginal(k) ==
  /\ attemptLog[k].def
  /\ originalScore.def => (~attemptLog[k].val.nan /\ attemptLog[k].val.v >= originalScore.val.v)
BelowOriginal(k) ==
  /\ attemptLog[k].def /\ originalScore.def
  /\ ~attemptLog[k].val.nan /\ attemptLog[k].val.v < originalScore.val.v

\* C23: at most MAX_RETRIES attempts; the loop stops at the first attempt scored at least
\* originalScore (the first scored attempt when there is no originalScore), no AI call is
\* made after it, and among the attempts that scored below originalScore the retained
\* candidate is the one with the highest score.
C23_RewriteLoop ==
  /\ [](/\ Len(attemptLog) <= MAX_RETRIES
        /\ \A k \in 1..Len(attemptLog) : ReachedOriginal(k) =>
              k = Len(attemptLog) /\ pcRewrite \in {"respond", "done"}
        /\ LET below == {k \in 1..Len(attemptLog) : BelowOriginal(k)}
           IN  (below # {} /\ \A k \in 1..Len(attemptLog) : ~ReachedOriginal(k)) =>
                 /\ bestResult.set /\ bestResult.attempt \in below
                 /\ bestResult.suggestedScore = attemptLog[bestResult.attempt]
                 /\ \A k \in below : attemptLog[k].val.v <= bestResult.suggestedScore.val.v)
  /\ [][(pcRewrite \in {"respond", "done"}) => (rewriteAiCalls' = rewriteAiCalls)]_vars

\* the third attempt was accepted after two attempts that scored below originalScore, the
\* second lower than the first
C23_Witness ==
  /\ pcRewrite = "done" /\ response.status = 200
  /\ Len(attemptLog) = 3
  /\ BelowOriginal(1) /\ BelowOriginal(2) /\ ReachedOriginal(3)
  /\ attemptLog[2].val.v < attemptLog[1].val.v
  /\ response.attempt = 3

\* C26: once an attempt has been generated and scored, an AI call of a later attempt that
\* gives no content after its 2 tries does not fail the request.
C26_AsStated ==
  (pcRewrite = "done" /\ response.cause = "no content") =>
     ~\E k \in 1..Len(attemptLog) : attemptLog[k].def

(***************************************************************************)
(* GET /api/publications/:id/map (routes.ts 1380-1460) over the rows that  *)
(* POST /api/history/evaluation stores (lines 1303-1325)                   *)
(***************************************************************************)
MaxEvaluations == 3
MapSections == {"abstract", "methods"}
\* the column key_points (jsonb): null, an array of key points, or another JSON value
NullPoints == [kind |-> "null", items |-> <<>>]
PointsArray(items) == [kind |-> "array", items |-> items]
KeyPointValues ==
  {NullPoints, PointsArray(<<>>), PointsArray(<<"p1">>), PointsArray(<<"p2", "p3">>),
   [kind |-> "object", items |-> <<>>]}

InitMap ==
  /\ evaluations = <<>> /\ mapResponse = NoMap
  /\ DiffIdle /\ ReadIdle /\ CallIdle /\ ConcIdle /\ EvalIdle /\ CacheIdle /\ RewriteIdle /\ PapersIdle /\ RestructureIdle

\* POST /api/history/evaluation, lines 1303-1320: a row is stored, created_at is the time of the insert
SaveEvaluation(t, points) ==
  /\ Len(evaluations) < MaxEvaluations
  /\ evaluations' = Append(evaluations, [sectionType |-> t, keyPoints |-> points])
  /\ UNCHANGED mapResponse
  /\ UNCHANGED <<diffVars, readVars, callVars, concVars, evalVars, cacheVars, rewriteVars, paperVars, restructureVars>>

\* line 1420: existing.keyPoints.length === 0 && e.keyPoints && Array.isArray(e.keyPoints)
TakesPoints(existing, e) == Len(existing.keyPoints) = 0 /\ e.keyPoints.kind = "array"

\* line 1415: the entry of a section type not seen yet
NewSection == [count |-> 0, keyPoints |-> <<>>]
\* lines 1415-1427: one iteration of the loop
MapStep(sectionMap, e) ==
  LET existing == sectionMap[e.sectionType]
  IN  [sectionMap EXCEPT ![e.sectionType] =
         [count |-> existing.count + 1,
          keyPoints |-> IF TakesPoints(existing, e) THEN e.keyPoints.items
                        ELSE existing.keyPoints]]
\* lines 1394-1428: the rows by descending created_at, that is rows k, k-1, ..., 1
RECURSIVE MapFrom(_, _)
MapFrom(rows, k) ==
  IF k > Len(rows) THEN [t \in MapSections |-> NewSection]
  ELSE MapStep(MapFrom(rows, k + 1), rows[k])
sectionMapOf(rows) == MapFrom(rows, 1)

\* lines 1380-1460
GetMap ==
  /\ mapResponse' = [sent |-> TRUE, seen |-> Len(evaluations),
                     sections |-> sectionMapOf(evaluations)]
  /\ UNCHANGED evaluations
  /\ UNCHANGED <<diffVars, readVars, callVars, concVars, evalVars, cacheVars, rewriteVars, paperVars, restructureVars>>

NextMap ==
  \/ \E t \in MapSections, points \in KeyPointValues : SaveEvaluation(t, points)
  \/ GetMap

MapSpec == InitMap /\ [][NextMap]_vars

\* the rows of section type t among the first n, and the most recent of them
RowsOf(t, n) == {k \in 1..n : evaluations[k].sectionType = t}
MostRecent(rows) == CHOOSE k \in rows : \A o \in rows : o <= k
\* the key points a row shows: those of its array, none otherwise
ShownPoints(e) == IF e.keyPoints.kind = "array" THEN e.keyPoints.items ELSE <<>>

\* C25: the keyPoints shown for each section type are those of the most recent
\* evaluation of that section type for the publication.
C25_AsStated ==
  mapResponse.sent =>
    \A t \in MapSections :
      LET rows == RowsOf(t, mapResponse.seen)
      IN  rows # {} =>
            mapResponse.sections[t].keyPoints = ShownPoints(evaluations[MostRecent(rows)])

\* what does hold: they are those of the most recent evaluation of that section type
\* that has key points, and none when there is no such evaluation
C25_MostRecentWithPoints ==
  mapResponse.sent =>
    \A t \in MapSections :
      LET rows == {k \in RowsOf(t, mapResponse.seen) : ShownPoints(evaluations[k]) # <<>>}
      IN  /\ mapResponse.sections[t].count = Cardinality(RowsOf(t, mapResponse.seen))
          /\ mapResponse.sections[t].keyPoints =
               IF rows = {} THEN <<>> ELSE ShownPoints(evaluations[MostRecent(rows)])

(***************************************************************************)
(* POST, PUT and DELETE on /api/papers (routes.ts 1187-1262) over the      *)
(* table research_papers (shared/models/research.ts 7-18)                  *)
(***************************************************************************)
NumPapers == 2
PaperIds == 1..NumPapers
\* the rows of the table users
Users == {"u1", "u2"}
\* a request body: each field is absent or has a value; "ghost" is the id of no user
PaperBodies == [title : {"absent", "t1"}, userId : {"absent", "u1", "u2", "ghost"}]
\* a row: creator is history, the user whose POST inserted it
NoPaper == [state |-> "free", userId |-> "none", title |-> "none", creator |-> "none"]
NoPut == [pending |-> FALSE, id |-> 0, body |-> [title |-> "absent", userId |-> "absent"]]

InitPapers ==
  /\ papers = [id \in PaperIds |-> NoPaper]
  /\ putRequests = [u \in Users |-> NoPut]
  /\ DiffIdle /\ ReadIdle /\ CallIdle /\ ConcIdle /\ EvalIdle /\ CacheIdle /\ RewriteIdle
  /\ MapIdle /\ RestructureIdle

\* lines 1205-1208, 1227-1230, 1249-1252: the row with this id and this user_id
OwnedBy(id, userId) == papers[id].state = "stored" /\ papers[id].userId = userId

\* lines 1187-1195: insertPaperSchema.safeParse({ ...req.body, userId }), then the insert
\* under a new id; a body without title is answered 400
PostPaper(user, body) ==
  /\ body.title # "absent"
  /\ \E id \in PaperIds :
       /\ papers[id].state = "free"
       /\ \A lower \in 1..(id - 1) : papers[lower].state # "free"
       /\ papers' = [papers EXCEPT ![id] =
            [state |-> "stored", userId |-> user, title |-> body.title, creator |-> user]]
  /\ UNCHANGED putRequests
  /\ UNCHANGED <<diffVars, readVars, callVars, concVars, evalVars, cacheVars, rewriteVars,
                 mapVars, restructureVars>>

\* lines 1224-1233: the select; 404 when the user has no such paper
PutSelect(user, id, body) ==
  /\ ~putRequests[user].pending
  /\ OwnedBy(id, user)
  /\ putRequests' = [putRequests EXCEPT ![user] = [pending |-> TRUE, id |-> id, body |-> body]]
  /\ UNCHANGED papers
  /\ UNCHANGED <<diffVars, readVars, callVars, concVars, evalVars, cacheVars, rewriteVars,
                 mapVars, restructureVars>>

\* line 1236, storage.ts 47: set({ ...req.body, updatedAt: new Date() })
SetColumns(row, body) ==
  [row EXCEPT !.title = IF body.title = "absent" THEN @ ELSE body.title,
              !.userId = IF body.userId = "absent" THEN @ ELSE body.userId]

\* lines 1234-1239: the update where id = :id; a user_id that is the id of no user breaks
\* the foreign key and the request is answered 500
PutUpdate(user) ==
  /\ putRequests[user].pending
  /\ LET id == putRequests[user].id
         body == putRequests[user].body
     IN  papers' = IF papers[id].state = "stored" /\ body.userId # "ghost"
                   THEN [papers EXCEPT ![id] = SetColumns(papers[id], body)]
                   ELSE papers
  /\ putRequests' = [putRequests EXCEPT ![user] = NoPut]
  /\ UNCHANGED <<diffVars, readVars, callVars, concVars, evalVars, cacheVars, rewriteVars,
                 mapVars, restructureVars>>

\* lines 1246-1257
DeletePaper(user, id) ==
  /\ OwnedBy(id, user)
  /\ papers' = [papers EXCEPT ![id] = [@ EXCEPT !.state = "deleted"]]
  /\ UNCHANGED putRequests
  /\ UNCHANGED <<diffVars, readVars, callVars, concVars, evalVars, cacheVars, rewriteVars,
                 mapVars, restructureVars>>

NextPapers ==
  \/ \E user \in Users, body \in PaperBodies : PostPaper(user, body)
  \/ \E user \in Users, id \in PaperIds, body \in PaperBodies : PutSelect(user, id, body)
  \/ \E user \in Users : PutUpdate(user)
  \/ \E user \in Users, id \in PaperIds : DeletePaper(user, id)

PapersSpec == InitPapers /\ [][NextPapers]_vars

\* C28: the owner of a paper never changes: after any sequence of POST, PUT and DELETE
\* requests by any users, every stored paper's userId is the id of the user who created it.
C28_AsStated ==
  papers # <<>> =>
    \A id \in PaperIds : papers[id].state = "stored" => papers[id].userId = papers[id].creator

\* what does hold: a paper is stored under the user who posts it, whatever the body says,
\* and only a PUT whose body has a userId changes the owner
C28_OwnerSetByPut ==
  [][\A id \in PaperIds :
       /\ (papers[id].state = "free" /\ papers'[id].state = "stored") =>
             papers'[id].userId = papers'[id].creator
       /\ (papers[id].state = "stored" /\ papers'[id].userId # papers[id].userId) =>
             \E user \in Users :
                /\ putRequests[user].pending /\ putRequests[user].id = id
                /\ putRequests[user].body.userId = papers'[id].userId]_vars

(***************************************************************************)
(* Restructure suggestions: the server numbers the paragraphs of the text  *)
(* (routes.ts 680-733), the client indexes them when it applies a          *)
(* suggestion (unnamed/part_002 247-346)                                   *)
(***************************************************************************)
MaxParagraphTextLen == 5
ParagraphAlphabet == {"a", " ", "\n"}
ParagraphTexts == StringsUpTo(ParagraphAlphabet, MaxParagraphTextLen)

\* the last position of the match of /\n\s*\n/ that starts at p, 0 when there is none:
\* \s* is greedy and gives back characters until a newline follows
BlankLineEnd(s, p) ==
  IF p > Len(s) \/ s[p] # "\n" THEN 0
  ELSE LET run == RunLen(s, p + 1, WhiteSpace)
           ends == {q \in (p + 1)..(p + run) : s[q] = "\n"}
       IN  IF ends = {} THEN 0 ELSE CHOOSE q \in ends : \A o \in ends : o <= q

\* text.split(/\n\s*\n/) from position p on
RECURSIVE SplitBlankFrom(_, _, _)
SplitBlankFrom(s, p, acc) ==
  LET q == FirstAt({x \in p..Len(s) : BlankLineEnd(s, x) > 0}, Len(s))
  IN IF q > Len(s) THEN Append(acc, SubSeq(s, p, Len(s)))
     ELSE SplitBlankFrom(s, BlankLineEnd(s, q) + 1, Append(acc, SubSeq(s, p, q - 1)))

\* routes.ts 680: text.split(/\n\s*\n/).filter(p => p.trim())
ServerSplit(t) == SelectSeq(SplitBlankFrom(t, 1, <<>>), LAMBDA para : trim(para) # <<>>)
\* part_002 248, 286: text.split(/\n\n/)
ClientSplit(t) == SplitOn(t, <<"\n", "\n">>)

InitRestructure ==
  /\ editorText \in ParagraphTexts
  /\ serverParagraphs = <<>> /\ clientParagraphs = <<>>
  /\ pcRestructure = "typed"
  /\ DiffIdle /\ ReadIdle /\ CallIdle /\ ConcIdle /\ EvalIdle /\ CacheIdle /\ RewriteIdle
  /\ MapIdle /\ PapersIdle

\* routes.ts 680-688: fewer than two paragraphs, nothing is suggested
RestructureOneParagraph ==
  /\ pcRestructure = "typed"
  /\ Len(ServerSplit(editorText)) < 2
  /\ serverParagraphs' = ServerSplit(editorText)
  /\ pcRestructure' = "done"
  /\ UNCHANGED <<editorText, clientParagraphs>>
  /\ UNCHANGED <<diffVars, readVars, callVars, concVars, evalVars, cacheVars, rewriteVars,
                 mapVars, paperVars>>

\* routes.ts 680-772: the paragraphs are numbered from 1 in the prompt (line 733) and the
\* suggestions name them by these numbers
RestructureSuggests ==
  /\ pcRestructure = "typed"
  /\ Len(ServerSplit(editorText)) >= 2
  /\ serverParagraphs' = ServerSplit(editorText)
  /\ pcRestructure' = "suggested"
  /\ UNCHANGED <<editorText, clientParagraphs>>
  /\ UNCHANGED <<diffVars, readVars, callVars, concVars, evalVars, cacheVars, rewriteVars,
                 mapVars, paperVars>>

\* part_002 247-250 (and 286, 293-297): the client splits the same text and indexes the
\* list with the numbers of the suggestion
applyRestructureSuggestion ==
  /\ pcRestructure = "suggested"
  /\ clientParagraphs' = ClientSplit(editorText)
  /\ pcRestructure' = "applied"
  /\ UNCHANGED <<editorText, serverParagraphs>>
  /\ UNCHANGED <<diffVars, readVars, callVars, concVars, evalVars, cacheVars, rewriteVars,
                 mapVars, paperVars>>

NextRestructure ==
  \/ RestructureOneParagraph
  \/ RestructureSuggests
  \/ applyRestructureSuggestion

RestructureSpec == InitRestructure /\ [][NextRestructure]_vars

\* the paragraphs as the prompt shows them (routes.ts 733: p.trim())
Trimmed(paragraphs) == [k \in 1..Len(paragraphs) |-> trim(paragraphs[k])]

\* C29: for every text the list of paragraphs the server numbers equals the list the
\* client indexes, so paragraph k is the same text on both sides.
C29_AsStated ==
  pcRestructure = "applied" => Trimmed(clientParagraphs) = Trimmed(serverParagraphs)

\* what does hold: the lists agree for the texts whose blank lines are empty, one at a
\* time, and neither first nor last in the text
SingleBlankLines(t) ==
  /\ \A p \in 1..Len(t) : BlankLineEnd(t, p) > 0 => BlankLineEnd(t, p) = p + 1
  /\ \A k \in 1..Len(ClientSplit(t)) : trim(ClientSplit(t)[k]) # <<>>
C29_WhenSingleBlankLines ==
  (pcRestructure = "applied" /\ SingleBlankLines(editorText)) =>
     clientParagraphs = serverParagraphs

====
